---- MODULE Spec2Model ----
(***************************************************************************)
(* A model of the task distribution engine of rockscraper-backend:         *)
(* models/worker.py, models/task.py, services/task_distributor.py and      *)
(* process.py.  Times are abstract ticks of the wall clock.                *)
(***************************************************************************)
EXTENDS Integers, Sequences, FiniteSets, TLC

\* ------------------------------------------------------------------ bounds
\* Worker-level specification (SpecWorker)
MaxLoadW == 2       \* largest max_load a worker is constructed with
MaxTaskIdW == 2     \* task ids handed to assign_task / complete_task

\* One distribute() call on drawn registries (SpecDist)
MaxTasksD == 3      \* tasks in the registry
MaxWorkersD == 2    \* workers in the registry
MaxLoadD == 3       \* largest max_load of a worker
MaxPriorityD == 2   \* priorities are 1..MaxPriorityD

\* A Process driven by one thread (Spec)
MaxTasksP == 1      \* tasks created
MaxWorkersP == 1    \* workers created
MaxLoadP == 2       \* largest max_load of a created worker
MaxRetriesP == 2    \* largest max_retries of a created task
MaxErrorsP == 2     \* error_count stops rising here

\* ------------------------------------------------------------------ enums
PENDING == "pending"
ASSIGNED == "assigned"
IN_PROGRESS == "in_progress"
COMPLETED == "completed"
FAILED == "failed"
TIMEOUT == "timeout"
TaskStatus == {PENDING, ASSIGNED, IN_PROGRESS, COMPLETED, FAILED, TIMEOUT}

ONLINE == "online"
BUSY == "busy"
OFFLINE == "offline"
ERROR == "error"
WorkerStatus == {ONLINE, BUSY, OFFLINE, ERROR}

ROUND_ROBIN == "round_robin"
LEAST_BUSY == "least_busy"
PRIORITY_BASED == "priority_based"
CAPABILITY_MATCH == "capability_match"
DistributionStrategy == {ROUND_ROBIN, LEAST_BUSY, PRIORITY_BASED, CAPABILITY_MATCH}

\* ------------------------------------------------------------------ state
VARIABLES
    tasks,          \* TaskDistributor.tasks: task id -> Task, in insertion (= id) order
    workers,        \* TaskDistributor.workers: worker id -> Worker, in insertion (= id) order
    strategy,       \* TaskDistributor.strategy
    task_results,   \* Process.task_results: task id -> TaskResult
    now,            \* datetime.now(): time stamps are kept relative to it
    ret,            \* the last call and what it returned
    pre,            \* the registries at the start of the distribute() call under study
    th              \* the frames of the calls in progress, per thread

vars == <<tasks, workers, strategy, task_results, now, ret, pre, th>>

\* ------------------------------------------------------------------ time
\* one clock tick is 30000 ms
HeartbeatTimeout == 2   \* Process.heartbeat_timeout_ms, 60000 ms by default
TaskTimeout == 1        \* Task.timeout_ms, 30000 ms by default

\* The clock: datetime.now() is the origin, a time stamp is 0 when taken and
\* falls by one with every tick that passes.  The code only reads
\* now - stamp > timeout, so stamps older than both timeouts are kept equal.
Horizon == (IF HeartbeatTimeout > TaskTimeout THEN HeartbeatTimeout ELSE TaskTimeout) + 1
Older(stamp) == IF stamp > 0 - Horizon THEN stamp - 1 ELSE stamp

\* ------------------------------------------------------------------ helpers
RECURSIVE InOrder(_)
\* The ids of a registry in dict order: ids are handed out increasing, so
\* insertion order is id order.
InOrder(S) ==
    IF S = {} THEN <<>>
    ELSE LET m == CHOOSE x \in S : \A y \in S : x <= y
         IN <<m>> \o InOrder(S \ {m})

Range(s) == {s[i] : i \in 1..Len(s)}

\* list.remove(x): drops the first occurrence of x
ListRemove(s, x) ==
    IF x \notin Range(s) THEN s
    ELSE LET k == CHOOSE i \in 1..Len(s) : s[i] = x /\ \A j \in 1..(i-1) : s[j] # x
         IN SubSeq(s, 1, k-1) \o SubSeq(s, k+1, Len(s))

Count(s, x) == Cardinality({i \in 1..Len(s) : s[i] = x})

\* ------------------------------------------------------------------ Worker
\* Worker.__init__
NewWorker(caps, max_load, t) ==
    [status |-> ONLINE, capabilities |-> caps, current_load |-> 0,
     max_load |-> max_load, last_heartbeat |-> t, current_tasks |-> <<>>]

update_heartbeat(w, t) == [w EXCEPT !.last_heartbeat = t]

Worker_update_status(w, s, t) == update_heartbeat([w EXCEPT !.status = s], t)

\* a slip: a refused call still counts as a sign of life
assign_task_refused_beat(w, task_id, t) ==
    IF w.current_load >= w.max_load THEN [ok |-> FALSE, w |-> update_heartbeat(w, t)]
    ELSE LET w1 == [w EXCEPT !.current_tasks = Append(@, task_id),
                             !.current_load = @ + 1]
         IN  [ok |-> TRUE,
              w  |-> IF w1.current_load >= w1.max_load
                     THEN Worker_update_status(w1, BUSY, t) ELSE w1]

\* a slip: the task is listed but the load is not raised
assign_task_noinc(w, task_id, t) ==
    IF w.current_load >= w.max_load THEN [ok |-> FALSE, w |-> w]
    ELSE [ok |-> TRUE, w |-> [w EXCEPT !.current_tasks = Append(@, task_id)]]

\* Worker.assign_task: the worker after the call and the value returned
assign_task(w, task_id, t) ==
    IF w.current_load >= w.max_load THEN [ok |-> FALSE, w |-> w]
    ELSE LET w1 == [w EXCEPT !.current_tasks = Append(@, task_id),
                             !.current_load = @ + 1]
         IN  [ok |-> TRUE,
              w  |-> IF w1.current_load >= w1.max_load
                     THEN Worker_update_status(w1, BUSY, t) ELSE w1]

\* a slip: any worker with room goes ONLINE when a task completes
complete_task_any_online(w, task_id, t) ==
    IF task_id \notin Range(w.current_tasks) THEN [ok |-> FALSE, w |-> w]
    ELSE LET w1 == [w EXCEPT !.current_tasks = ListRemove(@, task_id),
                             !.current_load = @ - 1]
         IN  [ok |-> TRUE,
              w  |-> IF w1.current_load < w1.max_load
                     THEN Worker_update_status(w1, ONLINE, t) ELSE w1]

\* Worker.complete_task
complete_task(w, task_id, t) ==
    IF task_id \notin Range(w.current_tasks) THEN [ok |-> FALSE, w |-> w]
    ELSE LET w1 == [w EXCEPT !.current_tasks = ListRemove(@, task_id),
                             !.current_load = @ - 1]
         IN  [ok |-> TRUE,
              w  |-> IF w1.status = BUSY /\ w1.current_load < w1.max_load
                     THEN Worker_update_status(w1, ONLINE, t) ELSE w1]

has_capability(w, capability) == capability \in w.capabilities

\* a slip: the status is not looked at
is_available_nostatus(w) == w.current_load < w.max_load

\* Worker.is_available
is_available(w) ==
    (w.status = ONLINE \/ w.status = BUSY) /\ w.current_load < w.max_load

\* ------------------------------------------------------------------ Task
NoCap == "none"     \* data has no (or a falsy) 'required_capability'
Capabilities == {"javascript", "image-processing"}

\* Task.__init__
NewTask(priority, req, max_retries, timeout_ms, t) ==
    [status |-> PENDING, priority |-> priority, required_capability |-> req,
     last_error |-> "", error_count |-> 0, max_retries |-> max_retries,
     updated_at |-> t, timeout_ms |-> timeout_ms]

Task_update_status(k, s, t) == [k EXCEPT !.status = s, !.updated_at = t]

\* a slip: the task fails only once error_count has passed max_retries
record_error_late(k, error, t) ==
    LET k1 == [k EXCEPT !.error_count = @ + 1, !.last_error = error]
    IN  IF k1.error_count > k1.max_retries
        THEN Task_update_status(k1, FAILED, t) ELSE k1

\* a slip: the first recorded error already fails the task
record_error_early(k, error, t) ==
    Task_update_status([k EXCEPT !.error_count = @ + 1, !.last_error = error], FAILED, t)

\* Task.record_error
record_error(k, error, t) ==
    LET k1 == [k EXCEPT !.error_count = @ + 1, !.last_error = error]
    IN  IF k1.error_count >= k1.max_retries
        THEN Task_update_status(k1, FAILED, t) ELSE k1

\* Task.is_timed_out
is_timed_out(k, t) == k.status = IN_PROGRESS /\ (t - k.updated_at) > k.timeout_ms

\* Task.reset
reset(k, t) == Task_update_status(k, PENDING, t)

\* ------------------------------------------------------------------ TaskDistributor
\* list.sort(key=...): a stable sort of a list of ids by key[id], ascending
RECURSIVE SortStable(_, _)
SortStable(s, key) ==
    IF s = <<>> THEN <<>>
    ELSE LET init == SortStable(SubSeq(s, 1, Len(s) - 1), key)
             x == s[Len(s)]
             p == Cardinality({i \in 1..Len(init) : key[init[i]] <= key[x]})
         IN  SubSeq(init, 1, p) \o <<x>> \o SubSeq(init, p + 1, Len(init))

Filter(s, keep) ==
    LET F[i \in 0..Len(s)] ==
            IF i = 0 THEN <<>>
            ELSE IF s[i] \in keep THEN Append(F[i-1], s[i]) ELSE F[i-1]
    IN  F[Len(s)]

\* a slip: every task is taken, whatever its status
get_pending_tasks_all(T) == InOrder(DOMAIN T)

\* TaskDistributor.get_pending_tasks, as the list of their ids
get_pending_tasks(T) ==
    Filter(InOrder(DOMAIN T), {i \in DOMAIN T : T[i].status = PENDING})

\* TaskDistributor.get_available_workers, as the list of their ids
get_available_workers(W) ==
    Filter(InOrder(DOMAIN W), {i \in DOMAIN W : is_available(W[i])})

LoadKey(W) == [i \in DOMAIN W |-> W[i].current_load]

\* The frame of one distribute() call: pc, the two local lists, the loop
\* position, the strategy's locals, and a log of the assign_task calls made.
NewFrame ==
    [pc |-> "start", tasks |-> <<>>, workers |-> <<>>, i |-> 1,
     worker_index |-> 0, worker_count |-> 0, tasks_assigned |-> 0, log |-> <<>>]

\* distribute(): pending_tasks = self.get_pending_tasks(); return 0 if none
DistPending(f, T) ==
    LET p == get_pending_tasks(T)
    IN  IF p = <<>> THEN [f EXCEPT !.pc = "return"]
        ELSE [f EXCEPT !.pc = "workers", !.tasks = p]

\* a slip: priority-based leaves the tasks in source order
DistWorkers_unsorted_tasks(f, strat, T, W) ==
    LET a == get_available_workers(W)
    IN  IF a = <<>> THEN [f EXCEPT !.pc = "return"]
        ELSE CASE strat = ROUND_ROBIN ->
                    [f EXCEPT !.pc = "loop", !.workers = a,
                              !.worker_index = 0, !.worker_count = Len(a)]
               [] strat = CAPABILITY_MATCH ->
                    [f EXCEPT !.pc = "loop", !.workers = a]
               [] OTHER ->
                    [f EXCEPT !.pc = "loop", !.workers = SortStable(a, LoadKey(W))]

\* distribute(): available_workers = ...; return 0 if none; then the head of
\* the strategy's method, up to its loop
DistWorkers(f, strat, T, W) ==
    LET a == get_available_workers(W)
    IN  IF a = <<>> THEN [f EXCEPT !.pc = "return"]
        ELSE CASE strat = ROUND_ROBIN ->
                    [f EXCEPT !.pc = "loop", !.workers = a,
                              !.worker_index = 0, !.worker_count = Len(a)]
               [] strat = PRIORITY_BASED ->
                    [f EXCEPT !.pc = "loop",
                              !.workers = SortStable(a, LoadKey(W)),
                              !.tasks = SortStable(@, [i \in DOMAIN T |-> 0 - T[i].priority])]
               [] strat = CAPABILITY_MATCH ->
                    [f EXCEPT !.pc = "loop", !.workers = a]
               [] OTHER ->
                    [f EXCEPT !.pc = "loop", !.workers = SortStable(a, LoadKey(W))]

\* a slip: the capability is not looked at
capable_workers_nofilter(f, T, W) == SortStable(f.workers, LoadKey(W))

\* a slip: the capable workers are not sorted by load
capable_workers_nosort(f, T, W) ==
    LET req == T[f.tasks[f.i]].required_capability
    IN  Filter(f.workers, {w \in Range(f.workers) :
                                req = NoCap \/ has_capability(W[w], req)})

\* a slip: a task without requirement is matched against the capabilities too
capable_workers_strict(f, T, W) ==
    LET req == T[f.tasks[f.i]].required_capability
    IN  SortStable(Filter(f.workers, {w \in Range(f.workers) : has_capability(W[w], req)}),
                   LoadKey(W))

\* _distribute_capability_match: capable_workers, sorted by load
capable_workers(f, T, W) ==
    LET req == T[f.tasks[f.i]].required_capability
    IN  SortStable(Filter(f.workers, {w \in Range(f.workers) :
                                req = NoCap \/ has_capability(W[w], req)}),
                   LoadKey(W))

\* The worker the strategy takes for the task at hand; 0 when capability-match
\* finds none (continue)
PickWorker(f, strat, T, W) ==
    CASE strat = ROUND_ROBIN -> f.workers[f.worker_index + 1]
      [] strat = CAPABILITY_MATCH ->
            IF capable_workers(f, T, W) = <<>> THEN 0 ELSE capable_workers(f, T, W)[1]
      [] OTHER -> f.workers[1]

\* a slip: round-robin does not advance its index
AfterAssign_noadvance(f, strat, w, W) ==
    LET ws == ListRemove(f.workers, w)
    IN  IF ~is_available(W[w])
        THEN [f EXCEPT !.workers = ws, !.worker_count = Len(ws),
                       !.worker_index = IF Len(ws) > 0 THEN f.worker_index % Len(ws)
                                        ELSE f.worker_index]
        ELSE f

\* a slip: least-busy and priority-based do not re-sort after an assignment
AfterAssign_noresort(f, strat, w, W) ==
    CASE strat = ROUND_ROBIN ->
            LET idx == (f.worker_index + 1) % f.worker_count
                ws == ListRemove(f.workers, w)
            IN  IF ~is_available(W[w])
                THEN [f EXCEPT !.workers = ws, !.worker_count = Len(ws),
                               !.worker_index = IF Len(ws) > 0 THEN idx % Len(ws) ELSE idx]
                ELSE [f EXCEPT !.worker_index = idx]
      [] strat = CAPABILITY_MATCH ->
            IF ~is_available(W[w]) /\ w \in Range(f.workers)
            THEN [f EXCEPT !.workers = ListRemove(@, w)] ELSE f
      [] OTHER ->
            IF ~is_available(W[w]) THEN [f EXCEPT !.workers = Tail(@)] ELSE f

\* a slip: a worker that became full ends the pass
AfterAssign_full_ends(f, strat, w, W) ==
    IF ~is_available(W[w]) THEN [f EXCEPT !.workers = <<>>, !.worker_count = 0]
    ELSE CASE strat = ROUND_ROBIN ->
                [f EXCEPT !.worker_index = (f.worker_index + 1) % f.worker_count]
           [] strat = CAPABILITY_MATCH -> f
           [] OTHER -> [f EXCEPT !.workers = SortStable(@, LoadKey(W))]

\* The strategy's bookkeeping after assign_task on worker w: advance the
\* rotation, drop the worker if it is no longer available, or re-sort
AfterAssign(f, strat, w, W) ==
    CASE strat = ROUND_ROBIN ->
            LET idx == (f.worker_index + 1) % f.worker_count
                ws == ListRemove(f.workers, w)
            IN  IF ~is_available(W[w])
                THEN [f EXCEPT !.workers = ws, !.worker_count = Len(ws),
                               !.worker_index = IF Len(ws) > 0 THEN idx % Len(ws) ELSE idx]
                ELSE [f EXCEPT !.worker_index = idx]
      [] strat = CAPABILITY_MATCH ->
            IF ~is_available(W[w]) /\ w \in Range(f.workers)
            THEN [f EXCEPT !.workers = ListRemove(@, w)] ELSE f
      [] OTHER ->
            IF ~is_available(W[w]) THEN [f EXCEPT !.workers = Tail(@)]
            ELSE [f EXCEPT !.workers = SortStable(@, LoadKey(W))]

\* One pass of the strategy's loop body, or the end of the loop.  The state
\* is the frame and the two registries.
DistIter(f, strat, T, W, t) ==
    IF f.i > Len(f.tasks) \/ f.workers = <<>>
    THEN [f |-> [f EXCEPT !.pc = "return"], T |-> T, W |-> W]
    ELSE LET task_id == f.tasks[f.i]
             w == PickWorker(f, strat, T, W)
         IN  IF w = 0
             THEN [f |-> [f EXCEPT !.i = @ + 1], T |-> T, W |-> W]
             ELSE LET r == assign_task(W[w], task_id, t)
                      W1 == [W EXCEPT ![w] = r.w]
                      T1 == IF r.ok
                            THEN [T EXCEPT ![task_id] = Task_update_status(@, ASSIGNED, t)]
                            ELSE T
                      f1 == [f EXCEPT !.i = @ + 1,
                                      !.tasks_assigned = IF r.ok THEN @ + 1 ELSE @,
                                      !.log = Append(@, [task |-> task_id, worker |-> w,
                                                         ok |-> r.ok, before |-> W[w],
                                                         list |-> f.workers,
                                                         loads |-> LoadKey(W)])]
                  IN  [f |-> AfterAssign(f1, strat, w, W1), T |-> T1, W |-> W1]

\* One step of a distribute() call
DistStep(f, strat, T, W, t) ==
    CASE f.pc = "start" -> [f |-> DistPending(f, T), T |-> T, W |-> W]
      [] f.pc = "workers" -> [f |-> DistWorkers(f, strat, T, W), T |-> T, W |-> W]
      [] f.pc = "loop" -> DistIter(f, strat, T, W, t)

RECURSIVE DistRun(_, _, _, _, _)
\* The call run from frame f to its return
DistRun(f, strat, T, W, t) ==
    IF f.pc = "return" THEN [f |-> f, T |-> T, W |-> W]
    ELSE LET s == DistStep(f, strat, T, W, t)
         IN  DistRun(s.f, strat, s.T, s.W, t)

\* TaskDistributor.distribute as one call: the registries after it and the
\* count it returns
distribute(strat, T, W, t) ==
    LET s == DistRun(NewFrame, strat, T, W, t)
    IN  [T |-> s.T, W |-> s.W, n |-> s.f.tasks_assigned, log |-> s.f.log]

\* ------------------------------------------------------------------
\* SpecWorker: one worker, driven by direct calls of its methods.
NoRet == [op |-> "none", ok |-> FALSE, n |-> 0, id |-> 0]
NoPre == [tasks |-> <<>>, workers |-> <<>>]

frameW == <<tasks, strategy, task_results, pre, th>>

InitWorker ==
    /\ tasks = <<>>
    /\ \E m \in 0..MaxLoadW : workers = [i \in {1} |-> NewWorker({"basic-scraping"}, m, 0)]
    /\ strategy = LEAST_BUSY
    /\ task_results = <<>>
    /\ now = 0
    /\ ret = NoRet
    /\ pre = NoPre
    /\ th = <<>>

WAssignTask(task_id) ==
    LET r == assign_task(workers[1], task_id, now)
    IN  /\ workers' = [workers EXCEPT ![1] = r.w]
        /\ ret' = [op |-> "assign_task", ok |-> r.ok, n |-> 0, id |-> task_id]
        /\ UNCHANGED <<now, frameW>>

WCompleteTask(task_id) ==
    LET r == complete_task(workers[1], task_id, now)
    IN  /\ workers' = [workers EXCEPT ![1] = r.w]
        /\ ret' = [op |-> "complete_task", ok |-> r.ok, n |-> 0, id |-> task_id]
        /\ UNCHANGED <<now, frameW>>

WUpdateStatus(s) ==
    /\ workers' = [workers EXCEPT ![1] = Worker_update_status(@, s, now)]
    /\ ret' = [op |-> "update_status", ok |-> TRUE, n |-> 0, id |-> 0]
    /\ UNCHANGED <<now, frameW>>

\* a clock tick passes
WAdvanceTime ==
    /\ workers' = [i \in DOMAIN workers |-> [workers[i] EXCEPT !.last_heartbeat = Older(@)]]
    /\ ret' = [op |-> "time", ok |-> TRUE, n |-> 0, id |-> 0]
    /\ UNCHANGED <<now, frameW>>

NextWorker ==
    \/ \E task_id \in 1..MaxTaskIdW : WAssignTask(task_id)
    \/ \E task_id \in 1..MaxTaskIdW : WCompleteTask(task_id)
    \/ \E s \in WorkerStatus : WUpdateStatus(s)
    \/ WAdvanceTime

SpecWorker == InitWorker /\ [][NextWorker]_vars

\* C1: after any sequence of assign_task and complete_task calls made one at
\* a time (failing calls and repeated task ids included), a worker's
\* current_load is the length of current_tasks and lies in 0..max_load.
C1_LoadMatchesTasks ==
    \A i \in DOMAIN workers :
        /\ workers[i].current_load = Len(workers[i].current_tasks)
        /\ 0 <= workers[i].current_load
        /\ workers[i].current_load <= workers[i].max_load

\* the same id was assigned twice, which filled the worker, and a further
\* assign_task was refused
C1_Witness ==
    /\ workers[1].max_load = 2
    /\ workers[1].current_tasks = <<1, 1>>
    /\ ret.op = "assign_task" /\ ~ret.ok

\* C13: assign_task on a worker whose current_load equals max_load returns
\* False and leaves the worker as it was: current_tasks, current_load, status
\* and last_heartbeat.
C13_FullWorkerRefuses ==
    [][(ret'.op = "assign_task" /\ workers[1].current_load = workers[1].max_load)
       => (~ret'.ok /\ workers' = workers)]_vars

\* a full worker whose last heartbeat is a tick old has refused a task
C13_Witness ==
    /\ ret.op = "assign_task" /\ ~ret.ok
    /\ workers[1].current_load = workers[1].max_load
    /\ workers[1].max_load > 0
    /\ workers[1].last_heartbeat < now

\* C14: an assign_task that brings current_load to max_load sets the status
\* to BUSY; a complete_task that brings a BUSY worker's current_load below
\* max_load sets it to ONLINE; a complete_task on a worker that is not BUSY
\* leaves the status as it was.
C14_BusyOnlineTransitions ==
    [][/\ (ret'.op = "assign_task" /\ ret'.ok
            /\ workers'[1].current_load = workers'[1].max_load)
          => workers'[1].status = BUSY
       /\ (ret'.op = "complete_task" /\ ret'.ok /\ workers[1].status = BUSY
            /\ workers'[1].current_load < workers'[1].max_load)
          => workers'[1].status = ONLINE
       /\ (ret'.op = "complete_task" /\ workers[1].status # BUSY)
          => workers'[1].status = workers[1].status]_vars

\* an OFFLINE worker has completed a task and is still OFFLINE
C14_Witness ==
    /\ ret.op = "complete_task" /\ ret.ok
    /\ workers[1].status = OFFLINE
    /\ workers[1].current_load < workers[1].max_load

\* ------------------------------------------------------------------
\* SpecDist: one distribute() call, by one thread, on drawn registries.
\* The registries are drawn per strategy: the fields a strategy never reads
\* are fixed (priority outside priority-based, capabilities outside
\* capability-match).  A worker's earlier load is held as entries of task
\* id 0, tasks no longer in the registry.
TaskDraws(strat) ==
    [status : IF strat \in {ROUND_ROBIN, LEAST_BUSY} THEN {PENDING, COMPLETED} ELSE {PENDING},
     priority : IF strat = PRIORITY_BASED THEN 1..MaxPriorityD ELSE {1},
     required_capability : IF strat = CAPABILITY_MATCH THEN {NoCap, "javascript"} ELSE {NoCap},
     last_error : {""}, error_count : {0}, max_retries : {3},
     updated_at : {0}, timeout_ms : {1}]

\* <<status, current_load, max_load>> of a drawn worker: online below
\* max_load (also one of capacity 1), busy and full, offline, and for the
\* strategies that read nothing else, marked busy while free and in error
WorkerStates(strat) ==
    {<<ONLINE, l, MaxLoadD>> : l \in 0..(MaxLoadD - 1)}
    \cup {<<ONLINE, 0, 1>>, <<BUSY, MaxLoadD, MaxLoadD>>, <<OFFLINE, 0, MaxLoadD>>}
    \cup (IF strat \in {ROUND_ROBIN, LEAST_BUSY}
          THEN {<<BUSY, 0, MaxLoadD>>, <<ERROR, 0, MaxLoadD>>} ELSE {})

WorkerCaps(strat) ==
    IF strat = CAPABILITY_MATCH
    THEN {{"basic-scraping"}, {"basic-scraping", "javascript"}}
    ELSE {{"basic-scraping"}}

DrawnWorker(sl, caps) ==
    [status |-> sl[1], capabilities |-> caps, current_load |-> sl[2],
     max_load |-> sl[3], last_heartbeat |-> 0,
     current_tasks |-> [j \in 1..sl[2] |-> 0]]

InitDist ==
    /\ \E strat \in DistributionStrategy :
       \E nt \in 1..MaxTasksD :
       \E T \in [1..nt -> TaskDraws(strat)],
          S \in [1..MaxWorkersD -> WorkerStates(strat)],
          C \in [1..MaxWorkersD -> WorkerCaps(strat)] :
          /\ strategy = strat
          /\ tasks = T
          /\ workers = [i \in 1..MaxWorkersD |-> DrawnWorker(S[i], C[i])]
    /\ task_results = <<>>
    /\ now = 0
    /\ ret = NoRet
    /\ pre = [tasks |-> tasks, workers |-> workers]
    /\ th = [caller |-> NewFrame]

\* the caller's distribute() call, from entry to return
DistributeCall ==
    /\ ret.op = "none"
    /\ LET s == DistRun(th.caller, strategy, tasks, workers, now)
       IN  /\ tasks' = s.T
           /\ workers' = s.W
           /\ th' = [th EXCEPT !.caller = s.f]
           /\ ret' = [op |-> "distribute", ok |-> TRUE, n |-> s.f.tasks_assigned, id |-> 0]
    /\ UNCHANGED <<strategy, task_results, now, pre>>

NextDist == DistributeCall

SpecDist == InitDist /\ [][NextDist]_vars

Returned == ret.op = "distribute"
Log == th.caller.log

\* the tasks whose status went from PENDING to ASSIGNED during the call
NewlyAssigned ==
    {i \in DOMAIN tasks : pre.tasks[i].status = PENDING /\ tasks[i].status = ASSIGNED}

RECURSIVE SumOver(_, _)
SumOver(S, g) ==
    IF S = {} THEN 0
    ELSE LET x == CHOOSE y \in S : TRUE IN g[x] + SumOver(S \ {x}, g)

Holders(i) == SumOver(DOMAIN workers, [w \in DOMAIN workers |-> Count(workers[w].current_tasks, i)])

PendingBefore == {i \in DOMAIN tasks : pre.tasks[i].status = PENDING}
AvailableBefore == get_available_workers(pre.workers)

\* C4: a single-threaded distribute() returns the number of tasks that went
\* from PENDING to ASSIGNED in the call; each of them was appended to exactly
\* one worker's current_tasks, once, raising that worker's load by one, and
\* nothing else changed.
C4_CountIsNewlyAssigned ==
    Returned =>
        /\ ret.n = Cardinality(NewlyAssigned)
        /\ \A i \in DOMAIN tasks :
              /\ Holders(i) = IF i \in NewlyAssigned THEN 1 ELSE 0
              /\ i \notin NewlyAssigned => tasks[i] = pre.tasks[i]
        /\ \A w \in DOMAIN workers :
              LET old == pre.workers[w]
                  new == workers[w]
                  got == {i \in NewlyAssigned : i \in Range(new.current_tasks)}
              IN  /\ new.current_load = old.current_load + Cardinality(got)
                  /\ Len(new.current_tasks) = Len(old.current_tasks) + Cardinality(got)
                  /\ SubSeq(new.current_tasks, 1, Len(old.current_tasks)) = old.current_tasks

\* two workers got tasks in one call and a task was left pending
C4_Witness ==
    /\ Returned /\ ret.n >= 2
    /\ \E i \in PendingBefore : tasks[i].status = PENDING
    /\ \E w1, w2 \in DOMAIN workers :
          /\ w1 # w2
          /\ workers[w1].current_load > pre.workers[w1].current_load
          /\ workers[w2].current_load > pre.workers[w2].current_load

\* C5: distribute() hands a task only to a worker that is ONLINE or BUSY and
\* below max_load at the moment of the assignment; no load passes max_load,
\* OFFLINE and ERROR workers are left as they were, and no assign_task is
\* tried on a worker that has become full.
C5_OnlyAvailableWorkers ==
    /\ \A w \in DOMAIN workers : workers[w].current_load <= workers[w].max_load
    /\ Returned =>
        /\ \A k \in 1..Len(Log) :
              /\ Log[k].ok
              /\ Log[k].before.status \in {ONLINE, BUSY}
              /\ Log[k].before.current_load < Log[k].before.max_load
        /\ \A w \in DOMAIN workers :
              pre.workers[w].status \in {OFFLINE, ERROR} => workers[w] = pre.workers[w]

\* a worker was filled during the pass, a task stayed pending, and an
\* OFFLINE worker with free capacity got nothing
C5_Witness ==
    /\ Returned
    /\ \E w \in DOMAIN workers :
          /\ pre.workers[w].current_load < pre.workers[w].max_load
          /\ workers[w].current_load = workers[w].max_load
    /\ \E w \in DOMAIN workers :
          /\ workers[w].status = OFFLINE
          /\ workers[w].current_load < workers[w].max_load
    /\ \E i \in PendingBefore : tasks[i].status = PENDING

\* C6: under capability-match no task that requires a capability is given
\* to a worker without it.
C6_CapabilityRespected ==
    (Returned /\ strategy = CAPABILITY_MATCH) =>
        \A i \in NewlyAssigned : \A w \in DOMAIN workers :
            (i \in Range(workers[w].current_tasks)
             /\ tasks[i].required_capability # NoCap)
            => tasks[i].required_capability \in workers[w].capabilities

\* a task requiring javascript went to the second worker although the first,
\* which lacks it, was available and less loaded
C6_Witness ==
    /\ Returned /\ strategy = CAPABILITY_MATCH
    /\ \E i \in NewlyAssigned :
          /\ tasks[i].required_capability = "javascript"
          /\ i \in Range(workers[2].current_tasks)
          /\ is_available(pre.workers[1])
          /\ "javascript" \notin workers[1].capabilities
          /\ pre.workers[1].current_load < pre.workers[2].current_load

NoRequirement == \A i \in PendingBefore : pre.tasks[i].required_capability = NoCap
AsLeastBusy == distribute(LEAST_BUSY, pre.tasks, pre.workers, now)

\* C7 (as claimed): with no required capability, capability-match makes the
\* task-to-worker assignment least-busy makes, and returns the same count.
C7_SameAssignment ==
    (Returned /\ strategy = CAPABILITY_MATCH /\ NoRequirement) =>
        /\ ret.n = AsLeastBusy.n
        /\ tasks = AsLeastBusy.T
        /\ workers = AsLeastBusy.W

\* the assignment went to a worker of least load among those still in the
\* strategy's list
LeastLoaded(e) == \A w \in Range(e.list) : e.before.current_load <= e.loads[w]

\* C7 (amended): with no required capability, capability-match returns the
\* count least-busy returns, assigns the same tasks, and gives each task to
\* a least-loaded worker among those still available; among equally loaded
\* workers it may take another one than least-busy does.
C7_SameTasksLeastLoaded ==
    (Returned /\ strategy = CAPABILITY_MATCH /\ NoRequirement) =>
        /\ ret.n = AsLeastBusy.n
        /\ tasks = AsLeastBusy.T
        /\ \A k \in 1..Len(Log) : LeastLoaded(Log[k])

\* no task requires a capability, several tasks were assigned, and the two
\* strategies put them on different workers
C7_Witness ==
    /\ Returned /\ strategy = CAPABILITY_MATCH /\ NoRequirement
    /\ ret.n >= 2
    /\ workers # AsLeastBusy.W

Eligible(w, i) ==
    \/ tasks[i].required_capability = NoCap
    \/ has_capability(workers[w], tasks[i].required_capability)

\* C8: under capability-match a pending task whose capability no available
\* worker has stays PENDING, the call returns, and every task for which an
\* eligible worker with free capacity exists is assigned: none is left
\* PENDING beside an available worker that is eligible for it.
C8_UnmatchedStaysPending ==
    (Returned /\ strategy = CAPABILITY_MATCH) =>
        /\ \A i \in PendingBefore :
              (\A k \in 1..Len(AvailableBefore) : ~Eligible(AvailableBefore[k], i))
              => tasks[i] = pre.tasks[i]
        /\ AvailableBefore # <<>> =>
              \A i \in PendingBefore : \A w \in DOMAIN workers :
                  (tasks[i].status = PENDING /\ is_available(workers[w])) => ~Eligible(w, i)

\* a task no available worker could take was skipped and a later task was
\* assigned in the same call
C8_Witness ==
    /\ Returned /\ strategy = CAPABILITY_MATCH
    /\ \E i, j \in PendingBefore :
          /\ i < j
          /\ \A k \in 1..Len(AvailableBefore) : ~Eligible(AvailableBefore[k], i)
          /\ tasks[i].status = PENDING
          /\ tasks[j].status = ASSIGNED

\* the pending tasks in the order the strategy walks them
PendingList == get_pending_tasks(pre.tasks)

\* C9: round-robin over exactly two available workers w0, w1 (registry
\* order), neither of which becomes full in the pass, gives the k-th pending
\* task (k = 0, 1, ...) to w(k mod 2).
C9_Alternates ==
    (/\ Returned /\ strategy = ROUND_ROBIN
     /\ Len(AvailableBefore) = 2
     /\ \A k \in 1..2 : is_available(workers[AvailableBefore[k]])) =>
        /\ Len(Log) = Len(PendingList)
        /\ \A k \in 1..Len(Log) :
              /\ Log[k].ok
              /\ Log[k].task = PendingList[k]
              /\ Log[k].worker = AvailableBefore[((k - 1) % 2) + 1]
              /\ PendingList[k] \in Range(workers[AvailableBefore[((k - 1) % 2) + 1]].current_tasks)

\* three pending tasks went to w0, w1, w0
C9_Witness ==
    /\ Returned /\ strategy = ROUND_ROBIN
    /\ Len(AvailableBefore) = 2
    /\ \A k \in 1..2 : is_available(workers[AvailableBefore[k]])
    /\ Len(Log) = 3
    /\ Log[3].worker = AvailableBefore[1]

\* ------------------------------------------------------------------ Process
\* a slip: the heartbeat expires when its age reaches the timeout
is_heartbeat_expired_at(w, timeout_ms, t) == (t - w.last_heartbeat) >= timeout_ms

\* Worker.is_heartbeat_expired
is_heartbeat_expired(w, timeout_ms, t) == (t - w.last_heartbeat) > timeout_ms

\* Process._check_worker_heartbeats
check_worker_heartbeats(W, t) ==
    [i \in DOMAIN W |->
        IF is_heartbeat_expired(W[i], HeartbeatTimeout, t) /\ W[i].status # OFFLINE
        THEN Worker_update_status(W[i], OFFLINE, t) ELSE W[i]]

\* a slip: assigned tasks are timed out too
check_task_timeouts_assigned(T, t) ==
    [i \in DOMAIN T |->
        IF T[i].status \in {ASSIGNED, IN_PROGRESS} /\ (t - T[i].updated_at) > T[i].timeout_ms
        THEN Task_update_status(T[i], TIMEOUT, t) ELSE T[i]]

\* Process._check_task_timeouts
check_task_timeouts(T, t) ==
    [i \in DOMAIN T |->
        IF T[i].status = IN_PROGRESS /\ is_timed_out(T[i], t)
        THEN Task_update_status(T[i], TIMEOUT, t) ELSE T[i]]

\* Process.record_task_result, on a registered task: the task after it
result_on_task(k, success, t) ==
    IF success THEN Task_update_status(k, COMPLETED, t)
    ELSE record_error(k, "Unknown error", t)

\* Process._trigger_task_hooks, with one callback registered for every
\* status: the callbacks it runs
trigger_task_hooks(task_id, k, old_status) ==
    IF k.status # old_status
    THEN <<[kind |-> "task", id |-> task_id, status |-> k.status]>> ELSE <<>>

\* Process._trigger_worker_hooks, likewise
trigger_worker_hooks(worker_id, w, old_status) ==
    IF w.status # old_status
    THEN <<[kind |-> "worker", id |-> worker_id, status |-> w.status]>> ELSE <<>>

\* Process._check_worker_heartbeats: the callbacks it runs, in registry
\* order: one for every worker it sets OFFLINE (the old status was another)
heartbeat_hooks(W, t) ==
    LET fired == Filter([i \in DOMAIN W |-> i],
                        {i \in DOMAIN W : /\ is_heartbeat_expired(W[i], HeartbeatTimeout, t)
                                          /\ W[i].status # OFFLINE})
    IN  [j \in DOMAIN fired |-> [kind |-> "worker", id |-> fired[j], status |-> OFFLINE]]

\* Process._check_task_timeouts: the callbacks it runs, in registry order:
\* one for every task it sets TIMEOUT (the old status was IN_PROGRESS)
timeout_hooks(T, t) ==
    LET fired == Filter([i \in DOMAIN T |-> i],
                        {i \in DOMAIN T : T[i].status = IN_PROGRESS /\ is_timed_out(T[i], t)})
    IN  [j \in DOMAIN fired |-> [kind |-> "task", id |-> fired[j], status |-> TIMEOUT]]

\* one pass of the loop of Process._monitor_tasks: the registries after it
\* and the callbacks it ran
monitor_tick(strat, T, W, t) ==
    LET W1 == check_worker_heartbeats(W, t)
        T1 == check_task_timeouts(T, t)
        r == distribute(strat, T1, W1, t)
    IN  [T |-> r.T, W |-> r.W, n |-> r.n,
         hooks |-> heartbeat_hooks(W, t) \o timeout_hooks(T, t)]

\* a slip: an earlier result of the task is kept
record_task_result_keep_first(T, W, R, task_id, worker_id, success, t) ==
    IF task_id \notin DOMAIN T \/ worker_id \notin DOMAIN W
    THEN [T |-> T, W |-> W, R |-> R, hooks |-> <<>>]
    ELSE LET k == result_on_task(T[task_id], success, t)
         IN  [T |-> [T EXCEPT ![task_id] = k],
              W |-> [W EXCEPT ![worker_id] = complete_task(@, task_id, t).w],
              R |-> R @@ (task_id :> [worker_id |-> worker_id, success |-> success]),
              hooks |-> trigger_task_hooks(task_id, k, T[task_id].status)]

\* a slip: the task is updated before the worker is looked up
record_task_result_task_first(T, W, R, task_id, worker_id, success, t) ==
    IF task_id \notin DOMAIN T THEN [T |-> T, W |-> W, R |-> R, hooks |-> <<>>]
    ELSE LET k == result_on_task(T[task_id], success, t)
         IN  IF worker_id \notin DOMAIN W
             THEN [T |-> [T EXCEPT ![task_id] = k], W |-> W, R |-> R, hooks |-> <<>>]
             ELSE [T |-> [T EXCEPT ![task_id] = k],
                   W |-> [W EXCEPT ![worker_id] = complete_task(@, task_id, t).w],
                   R |-> (task_id :> [worker_id |-> worker_id, success |-> success]) @@ R,
                   hooks |-> trigger_task_hooks(task_id, k, T[task_id].status)]

\* Process.record_task_result: registries and result store after it, and
\* the callbacks it ran
record_task_result(T, W, R, task_id, worker_id, success, t) ==
    IF task_id \notin DOMAIN T \/ worker_id \notin DOMAIN W
    THEN [T |-> T, W |-> W, R |-> R, hooks |-> <<>>]
    ELSE LET k == result_on_task(T[task_id], success, t)
         IN  [T |-> [T EXCEPT ![task_id] = k],
              W |-> [W EXCEPT ![worker_id] = complete_task(@, task_id, t).w],
              R |-> (task_id :> [worker_id |-> worker_id, success |-> success]) @@ R,
              hooks |-> trigger_task_hooks(task_id, k, T[task_id].status)]

\* a slip: every heartbeat sets the worker ONLINE
update_worker_heartbeat_online(W, worker_id, t) ==
    IF worker_id \notin DOMAIN W THEN [W |-> W, ok |-> FALSE, hooks |-> <<>>]
    ELSE LET w0 == W[worker_id]
             w2 == Worker_update_status(update_heartbeat(w0, t), ONLINE, t)
         IN  [W |-> [W EXCEPT ![worker_id] = w2], ok |-> TRUE,
              hooks |-> trigger_worker_hooks(worker_id, w2, w0.status)]

\* Process.update_worker_heartbeat: the registry after it, the value
\* returned and the callbacks it ran
update_worker_heartbeat(W, worker_id, t) ==
    IF worker_id \notin DOMAIN W THEN [W |-> W, ok |-> FALSE, hooks |-> <<>>]
    ELSE LET w0 == W[worker_id]
             w1 == update_heartbeat(w0, t)
             w2 == IF w0.status = OFFLINE THEN Worker_update_status(w1, ONLINE, t) ELSE w1
         IN  [W |-> [W EXCEPT ![worker_id] = w2], ok |-> TRUE,
              hooks |-> IF w0.status = OFFLINE
                        THEN trigger_worker_hooks(worker_id, w2, w0.status) ELSE <<>>]

\* ------------------------------------------------------------------
\* Spec: a Process whose operations are called one at a time.
frameP == <<ret, pre, th>>

Init ==
    /\ tasks = <<>>
    /\ workers = <<>>
    /\ strategy \in DistributionStrategy
    /\ task_results = <<>>
    /\ now = 0
    /\ ret = NoRet
    /\ pre = NoPre
    /\ th = <<>>

\* Process.create_task
CreateTask(max_retries) ==
    /\ Len(tasks) < MaxTasksP
    /\ tasks' = Append(tasks, NewTask(1, NoCap, max_retries, TaskTimeout, now))
    /\ UNCHANGED <<workers, strategy, task_results, now, frameP>>

\* Process.create_worker
CreateWorker(max_load) ==
    /\ Len(workers) < MaxWorkersP
    /\ workers' = Append(workers, NewWorker({"basic-scraping"}, max_load, now))
    /\ UNCHANGED <<tasks, strategy, task_results, now, frameP>>

\* TaskDistributor.distribute, called by the caller
Distribute ==
    LET r == distribute(strategy, tasks, workers, now)
    IN  /\ tasks' = r.T
        /\ workers' = r.W
        /\ UNCHANGED <<strategy, task_results, now, frameP>>

\* one pass of the loop of Process._monitor_tasks
MonitorTick ==
    LET W1 == check_worker_heartbeats(workers, now)
        T1 == check_task_timeouts(tasks, now)
        r == distribute(strategy, T1, W1, now)
    IN  /\ tasks' = r.T
        /\ workers' = r.W
        /\ UNCHANGED <<strategy, task_results, now, frameP>>

\* Process.record_task_result
RecordTaskResult(task_id, worker_id, success) ==
    /\ (task_id \in DOMAIN tasks /\ ~success) => tasks[task_id].error_count < MaxErrorsP
    /\ IF task_id \notin DOMAIN tasks \/ worker_id \notin DOMAIN workers
       THEN UNCHANGED <<tasks, workers, task_results>>
       ELSE /\ tasks' = [tasks EXCEPT ![task_id] = result_on_task(@, success, now)]
            /\ workers' = [workers EXCEPT ![worker_id] = complete_task(@, task_id, now).w]
            /\ task_results' = (task_id :> [worker_id |-> worker_id, success |-> success])
                               @@ task_results
    /\ UNCHANGED <<strategy, now, frameP>>

\* Process.update_worker_heartbeat
UpdateWorkerHeartbeat(worker_id) ==
    /\ IF worker_id \notin DOMAIN workers
       THEN UNCHANGED workers
       ELSE workers' = [workers EXCEPT ![worker_id] =
                    IF @.status = OFFLINE
                    THEN Worker_update_status(update_heartbeat(@, now), ONLINE, now)
                    ELSE update_heartbeat(@, now)]
    /\ UNCHANGED <<tasks, strategy, task_results, now, frameP>>

\* Task.record_error, called on a registered task
RecordError(task_id) ==
    /\ task_id \in DOMAIN tasks
    /\ tasks[task_id].error_count < MaxErrorsP
    /\ tasks' = [tasks EXCEPT ![task_id] = record_error(@, "Unknown error", now)]
    /\ UNCHANGED <<workers, strategy, task_results, now, frameP>>

\* Task.reset, called on a registered task
Reset(task_id) ==
    /\ task_id \in DOMAIN tasks
    /\ tasks' = [tasks EXCEPT ![task_id] = reset(@, now)]
    /\ UNCHANGED <<workers, strategy, task_results, now, frameP>>

\* the executor takes up an assigned task: Task.update_status(IN_PROGRESS)
StartTask(task_id) ==
    /\ task_id \in DOMAIN tasks
    /\ tasks[task_id].status = ASSIGNED
    /\ tasks' = [tasks EXCEPT ![task_id] = Task_update_status(@, IN_PROGRESS, now)]
    /\ UNCHANGED <<workers, strategy, task_results, now, frameP>>

\* a clock tick passes
AdvanceTime ==
    /\ workers' = [i \in DOMAIN workers |-> [workers[i] EXCEPT !.last_heartbeat = Older(@)]]
    /\ tasks' = [i \in DOMAIN tasks |-> [tasks[i] EXCEPT !.updated_at = Older(@)]]
    /\ UNCHANGED <<strategy, task_results, now, frameP>>

Next ==
    \/ \E m \in 0..MaxRetriesP : CreateTask(m)
    \/ \E m \in 1..MaxLoadP : CreateWorker(m)
    \/ Distribute
    \/ MonitorTick
    \/ \E i \in 1..MaxTasksP, w \in 1..MaxWorkersP, b \in BOOLEAN : RecordTaskResult(i, w, b)
    \/ \E w \in 1..MaxWorkersP : UpdateWorkerHeartbeat(w)
    \/ \E i \in 1..MaxTasksP : RecordError(i)
    \/ \E i \in 1..MaxTasksP : Reset(i)
    \/ \E i \in 1..MaxTasksP : StartTask(i)
    \/ AdvanceTime

Spec == Init /\ [][Next]_vars

\* C10, as stated: in every reachable state a task whose error_count has
\* reached its max_retries has status FAILED.
C10_ExhaustedIsFailed ==
    \A i \in DOMAIN tasks :
        tasks[i].error_count >= tasks[i].max_retries => tasks[i].status = FAILED

\* C10, amended: every step that raises a task's error_count (record_error,
\* or record_task_result with a failure) leaves the task FAILED in that same
\* step when the new error_count has reached max_retries.
C10_FailedWithTheIncrement ==
    [][\A i \in DOMAIN tasks :
          (/\ i \in DOMAIN tasks'
           /\ tasks'[i].error_count > tasks[i].error_count
           /\ tasks'[i].error_count >= tasks'[i].max_retries)
          => tasks'[i].status = FAILED]_vars

C10_Witness ==
    \E i \in DOMAIN tasks :
        /\ tasks[i].max_retries > 1
        /\ tasks[i].error_count = tasks[i].max_retries
        /\ tasks[i].last_error = "Unknown error"
        /\ tasks[i].status = FAILED

\* C11: a call of record_error leaves the task's status as it was while the
\* raised error_count is below max_retries, and sets it to FAILED in the same
\* step at the call where error_count reaches max_retries; so a fresh task
\* with max_retries m >= 1 is unchanged by the first m - 1 calls in a row and
\* FAILED by the m-th.
C11_FailsAtMaxRetries ==
    [][\A i \in DOMAIN tasks :
          (i \in DOMAIN tasks' /\ tasks'[i].error_count = tasks[i].error_count + 1)
          => /\ tasks'[i].last_error = "Unknown error"
             /\ IF tasks'[i].error_count < tasks'[i].max_retries
                THEN tasks'[i].status = tasks[i].status
                ELSE tasks'[i].status = FAILED]_vars

\* one error recorded on a fresh task that allows two: still PENDING
C11_Witness ==
    \E i \in DOMAIN tasks :
        /\ tasks[i].max_retries = 2
        /\ tasks[i].error_count = 1
        /\ tasks[i].last_error = "Unknown error"
        /\ tasks[i].status = PENDING

\* ------------------------------------------------------------------
\* SpecConc: the monitor thread runs one pass of its loop while a caller
\* thread runs record_task_result or distribute().  No lock is taken anywhere
\* in the code, so the threads interleave between any two accesses of the
\* registries; current_load += 1 and current_load -= 1 are a read and a write.
MaxWorkersC == 2    \* workers registered
MaxLoadC == 2       \* largest max_load of a worker

Threads == {"monitor", "caller"}

\* a thread's frame: the frame of distribute() and the locals of the
\* assign_task or complete_task call it is in
ThreadFrame(op, pc) ==
    [op |-> op, pc |-> pc, tasks |-> <<>>, workers |-> <<>>, i |-> 1,
     worker_index |-> 0, worker_count |-> 0, tasks_assigned |-> 0, log |-> <<>>,
     w |-> 0, task |-> 0, load |-> 0, success |-> FALSE]

frameC == <<strategy, now, ret, pre>>

\* Task 1 is in progress on worker 1, task 2 is pending; the time stamps are
\* fresh or older than the timeouts.  The caller reports the result of task 1
\* or calls distribute(), as example.py does after start().
InitConc ==
    /\ \E stamp \in {0, 0 - Horizon} :
         tasks = <<Task_update_status(NewTask(1, NoCap, 1, TaskTimeout, 0), IN_PROGRESS, stamp),
                   NewTask(1, NoCap, 1, TaskTimeout, 0)>>
    /\ \E n \in 1..MaxWorkersC, m \in 2..MaxLoadC, stamp \in {0, 0 - Horizon} :
         workers = [w \in 1..n |->
                      IF w = 1
                      THEN [NewWorker({"basic-scraping"}, m, stamp)
                                EXCEPT !.current_tasks = <<1>>, !.current_load = 1]
                      ELSE NewWorker({"basic-scraping"}, m, 0)]
    /\ strategy \in DistributionStrategy
    /\ task_results = <<>>
    /\ now = 0
    /\ ret = NoRet
    /\ pre = [tasks |-> tasks, workers |-> workers]
    /\ \E op \in {"record", "distribute"}, success \in BOOLEAN :
         /\ op = "distribute" => success
         /\ th = [monitor |-> ThreadFrame("tick", "heartbeats"),
                  caller |-> [ThreadFrame(op, IF op = "record" THEN "record" ELSE "start")
                                  EXCEPT !.w = 1, !.task = 1, !.success = success]]

\* _monitor_tasks: self._check_worker_heartbeats()
MonitorHeartbeats ==
    /\ th.monitor.pc = "heartbeats"
    /\ workers' = check_worker_heartbeats(workers, now)
    /\ th' = [th EXCEPT !.monitor.pc = "timeouts"]
    /\ UNCHANGED <<tasks, task_results, frameC>>

\* _monitor_tasks: self._check_task_timeouts()
MonitorTimeouts ==
    /\ th.monitor.pc = "timeouts"
    /\ tasks' = check_task_timeouts(tasks, now)
    /\ th' = [th EXCEPT !.monitor.pc = "start"]
    /\ UNCHANGED <<workers, task_results, frameC>>

\* distribute(): the list of pending tasks is taken
ConcPending(t) ==
    /\ th[t].pc = "start"
    /\ th' = [th EXCEPT ![t] = DistPending(@, tasks)]
    /\ UNCHANGED <<tasks, workers, task_results, frameC>>

\* distribute(): the list of available workers is taken
ConcWorkers(t) ==
    /\ th[t].pc = "workers"
    /\ th' = [th EXCEPT ![t] = DistWorkers(@, strategy, tasks, workers)]
    /\ UNCHANGED <<tasks, workers, task_results, frameC>>

\* the head of the strategy's loop body, up to the test that opens
\* Worker.assign_task
ConcLoop(t) ==
    LET f == th[t]
    IN  /\ f.pc = "loop"
        /\ th' = [th EXCEPT ![t] =
              IF f.i > Len(f.tasks) \/ f.workers = <<>>
              THEN [f EXCEPT !.pc = "return"]
              ELSE LET w == PickWorker(f, strategy, tasks, workers)
                   IN  IF w = 0 THEN [f EXCEPT !.i = @ + 1]
                       ELSE IF workers[w].current_load >= workers[w].max_load
                       THEN AfterAssign([f EXCEPT !.i = @ + 1], strategy, w, workers)
                       ELSE [f EXCEPT !.pc = "append", !.w = w, !.task = f.tasks[f.i]]]
        /\ UNCHANGED <<tasks, workers, task_results, frameC>>

\* assign_task: self.current_tasks.append(task_id)
AssignAppend(t) ==
    /\ th[t].pc = "append"
    /\ workers' = [workers EXCEPT ![th[t].w].current_tasks = Append(@, th[t].task)]
    /\ th' = [th EXCEPT ![t].pc = "assign_read"]
    /\ UNCHANGED <<tasks, task_results, frameC>>

\* assign_task: self.current_load += 1, the read
AssignLoadRead(t) ==
    /\ th[t].pc = "assign_read"
    /\ th' = [th EXCEPT ![t].load = workers[th[t].w].current_load, ![t].pc = "assign_write"]
    /\ UNCHANGED <<tasks, workers, task_results, frameC>>

\* assign_task: self.current_load += 1, the write
AssignLoadWrite(t) ==
    /\ th[t].pc = "assign_write"
    /\ workers' = [workers EXCEPT ![th[t].w].current_load = th[t].load + 1]
    /\ th' = [th EXCEPT ![t].pc = "assigned"]
    /\ UNCHANGED <<tasks, task_results, frameC>>

\* the tail of assign_task, and the strategy's loop body after it returned True
AssignDone(t) ==
    LET f == th[t]
        w == f.w
        W1 == IF workers[w].current_load >= workers[w].max_load
              THEN [workers EXCEPT ![w] = Worker_update_status(@, BUSY, now)]
              ELSE workers
    IN  /\ f.pc = "assigned"
        /\ workers' = W1
        /\ tasks' = [tasks EXCEPT ![f.task] = Task_update_status(@, ASSIGNED, now)]
        /\ th' = [th EXCEPT ![t] =
                    AfterAssign([f EXCEPT !.pc = "loop", !.i = @ + 1, !.tasks_assigned = @ + 1],
                                strategy, w, W1)]
        /\ UNCHANGED <<task_results, frameC>>

\* record_task_result, up to worker.complete_task
RecordStart ==
    LET f == th.caller
    IN  /\ f.pc = "record"
        /\ tasks' = [tasks EXCEPT ![f.task] = result_on_task(@, f.success, now)]
        /\ th' = [th EXCEPT !.caller.pc = "complete"]
        /\ UNCHANGED <<workers, task_results, frameC>>

\* complete_task: the membership test and self.current_tasks.remove(task_id)
CompleteRemove ==
    LET f == th.caller
    IN  /\ f.pc = "complete"
        /\ IF f.task \in Range(workers[f.w].current_tasks)
           THEN /\ workers' = [workers EXCEPT ![f.w].current_tasks = ListRemove(@, f.task)]
                /\ th' = [th EXCEPT !.caller.pc = "complete_read"]
           ELSE /\ th' = [th EXCEPT !.caller.pc = "store"]
                /\ UNCHANGED workers
        /\ UNCHANGED <<tasks, task_results, frameC>>

\* complete_task: self.current_load -= 1, the read
CompleteLoadRead ==
    /\ th.caller.pc = "complete_read"
    /\ th' = [th EXCEPT !.caller.load = workers[th.caller.w].current_load,
                        !.caller.pc = "complete_write"]
    /\ UNCHANGED <<tasks, workers, task_results, frameC>>

\* complete_task: self.current_load -= 1, the write, and the tail of the method
CompleteLoadWrite ==
    LET f == th.caller
        w1 == [workers[f.w] EXCEPT !.current_load = f.load - 1]
    IN  /\ f.pc = "complete_write"
        /\ workers' = [workers EXCEPT ![f.w] =
                          IF w1.status = BUSY /\ w1.current_load < w1.max_load
                          THEN Worker_update_status(w1, ONLINE, now) ELSE w1]
        /\ th' = [th EXCEPT !.caller.pc = "store"]
        /\ UNCHANGED <<tasks, task_results, frameC>>

\* record_task_result: self.task_results[task_id] = result
RecordStore ==
    LET f == th.caller
    IN  /\ f.pc = "store"
        /\ task_results' = (f.task :> [worker_id |-> f.w, success |-> f.success])
                           @@ task_results
        /\ th' = [th EXCEPT !.caller.pc = "return"]
        /\ UNCHANGED <<tasks, workers, frameC>>

NextConc ==
    \/ MonitorHeartbeats
    \/ MonitorTimeouts
    \/ \E t \in Threads : ConcPending(t)
    \/ \E t \in Threads : ConcWorkers(t)
    \/ \E t \in Threads : ConcLoop(t)
    \/ \E t \in Threads : AssignAppend(t)
    \/ \E t \in Threads : AssignLoadRead(t)
    \/ \E t \in Threads : AssignLoadWrite(t)
    \/ \E t \in Threads : AssignDone(t)
    \/ RecordStart
    \/ CompleteRemove
    \/ CompleteLoadRead
    \/ CompleteLoadWrite
    \/ RecordStore

SpecConc == InitConc /\ [][NextConc]_vars

BothReturned == \A t \in Threads : th[t].pc = "return"

\* C2: when the monitor's pass and the caller's record_task_result on the
\* same worker have both returned, every worker's current_load equals the
\* length of its current_tasks.
C2_LoadMatchesTasksAfterRace ==
    (BothReturned /\ th.caller.op = "record")
    => \A w \in DOMAIN workers :
          workers[w].current_load = Len(workers[w].current_tasks)

\* C3: when the monitor's distribute() and the caller's distribute() have
\* both returned, no task id is held twice (by two workers, or twice by one),
\* and the two returned counts sum to the number of tasks that left PENDING.
C3_EachTaskAssignedOnce ==
    (BothReturned /\ th.caller.op = "distribute")
    => /\ \A i \in DOMAIN tasks : Holders(i) <= 1
       /\ th.monitor.tasks_assigned + th.caller.tasks_assigned
            = Cardinality({i \in DOMAIN tasks :
                              pre.tasks[i].status = PENDING /\ tasks[i].status # PENDING})

\* ------------------------------------------------------------------
\* SpecHooks: a Process with a callback registered for every task status and
\* every worker status, its operations called one at a time.  ret holds the
\* last operation: its arguments, the value returned, the callbacks it ran,
\* and for record_task_result whether the worker held the task when called.
Outcome(op, task_id, worker_id, ok, n, hooks) ==
    [op |-> op, task |-> task_id, worker |-> worker_id, ok |-> ok, n |-> n, hooks |-> hooks,
     held |-> FALSE]

frameH == <<pre, th>>

InitHooks ==
    /\ tasks = <<>>
    /\ workers = <<>>
    /\ strategy = LEAST_BUSY      \* the default of Process.__init__
    /\ task_results = <<>>
    /\ now = 0
    /\ ret = Outcome("none", 0, 0, FALSE, 0, <<>>)
    /\ pre = NoPre
    /\ th = <<>>

\* Process.create_task
HCreateTask(max_retries) ==
    /\ Len(tasks) < MaxTasksP
    /\ tasks' = Append(tasks, NewTask(1, NoCap, max_retries, TaskTimeout, now))
    /\ ret' = Outcome("create_task", Len(tasks) + 1, 0, TRUE, 0, <<>>)
    /\ UNCHANGED <<workers, strategy, task_results, now, frameH>>

\* Process.create_worker
HCreateWorker(max_load) ==
    /\ Len(workers) < MaxWorkersP
    /\ workers' = Append(workers, NewWorker({"basic-scraping"}, max_load, now))
    /\ ret' = Outcome("create_worker", 0, Len(workers) + 1, TRUE, 0, <<>>)
    /\ UNCHANGED <<tasks, strategy, task_results, now, frameH>>

\* TaskDistributor.distribute, called by the caller
HDistribute ==
    \E r \in {distribute(strategy, tasks, workers, now)} :
        /\ tasks' = r.T
        /\ workers' = r.W
        /\ ret' = Outcome("distribute", 0, 0, TRUE, r.n, <<>>)
        /\ UNCHANGED <<strategy, task_results, now, frameH>>

\* one pass of the loop of Process._monitor_tasks
HMonitorTick ==
    \E r \in {monitor_tick(strategy, tasks, workers, now)} :
        /\ tasks' = r.T
        /\ workers' = r.W
        /\ ret' = Outcome("tick", 0, 0, TRUE, r.n, r.hooks)
        /\ UNCHANGED <<strategy, task_results, now, frameH>>

\* Process.record_task_result
HRecordTaskResult(task_id, worker_id, success) ==
    LET r == record_task_result(tasks, workers, task_results, task_id, worker_id, success, now)
    IN  /\ (task_id \in DOMAIN tasks /\ ~success) => tasks[task_id].error_count < MaxErrorsP
        /\ tasks' = r.T
        /\ workers' = r.W
        /\ task_results' = r.R
        /\ ret' = [Outcome("record_task_result", task_id, worker_id, success, 0, r.hooks)
                      EXCEPT !.held = /\ task_id \in DOMAIN tasks
                                      /\ worker_id \in DOMAIN workers
                                      /\ task_id \in Range(workers[worker_id].current_tasks)]
        /\ UNCHANGED <<strategy, now, frameH>>

\* Process.update_worker_heartbeat
HUpdateWorkerHeartbeat(worker_id) ==
    LET r == update_worker_heartbeat(workers, worker_id, now)
    IN  /\ workers' = r.W
        /\ ret' = Outcome("update_worker_heartbeat", 0, worker_id, r.ok, 0, r.hooks)
        /\ UNCHANGED <<tasks, strategy, task_results, now, frameH>>

\* Task.reset, called on a registered task
HReset(task_id) ==
    /\ task_id \in DOMAIN tasks
    /\ tasks' = [tasks EXCEPT ![task_id] = reset(@, now)]
    /\ ret' = Outcome("reset", task_id, 0, TRUE, 0, <<>>)
    /\ UNCHANGED <<workers, strategy, task_results, now, frameH>>

\* the executor takes up an assigned task: Task.update_status(IN_PROGRESS)
HStartTask(task_id) ==
    /\ task_id \in DOMAIN tasks
    /\ tasks[task_id].status = ASSIGNED
    /\ tasks' = [tasks EXCEPT ![task_id] = Task_update_status(@, IN_PROGRESS, now)]
    /\ ret' = Outcome("start_task", task_id, 0, TRUE, 0, <<>>)
    /\ UNCHANGED <<workers, strategy, task_results, now, frameH>>

\* a worker reports a fault: Worker.update_status(ERROR)
HWorkerError(worker_id) ==
    /\ worker_id \in DOMAIN workers
    /\ workers' = [workers EXCEPT ![worker_id] = Worker_update_status(@, ERROR, now)]
    /\ ret' = Outcome("worker_error", 0, worker_id, TRUE, 0, <<>>)
    /\ UNCHANGED <<tasks, strategy, task_results, now, frameH>>

\* a clock tick passes
HAdvanceTime ==
    /\ workers' = [i \in DOMAIN workers |-> [workers[i] EXCEPT !.last_heartbeat = Older(@)]]
    /\ tasks' = [i \in DOMAIN tasks |-> [tasks[i] EXCEPT !.updated_at = Older(@)]]
    /\ ret' = Outcome("time", 0, 0, TRUE, 0, <<>>)
    /\ UNCHANGED <<strategy, task_results, now, frameH>>

NextHooks ==
    \/ \E m \in 1..MaxRetriesP : HCreateTask(m)
    \/ \E m \in 1..MaxLoadP : HCreateWorker(m)
    \/ HDistribute
    \/ HMonitorTick
    \/ \E i \in 1..MaxTasksP + 1, w \in 1..MaxWorkersP + 1, b \in BOOLEAN :
          HRecordTaskResult(i, w, b)
    \/ \E w \in 1..MaxWorkersP + 1 : HUpdateWorkerHeartbeat(w)
    \/ \E i \in 1..MaxTasksP : HReset(i)
    \/ \E i \in 1..MaxTasksP : HStartTask(i)
    \/ \E w \in 1..MaxWorkersP : HWorkerError(w)
    \/ HAdvanceTime

SpecHooks == InitHooks /\ [][NextHooks]_vars

Terminal == {COMPLETED, FAILED, TIMEOUT}

\* C12: COMPLETED, FAILED and TIMEOUT are terminal: a step that changes the
\* status of a task in one of them is a reset(), and it moves the task to
\* PENDING; record_task_result, the monitor tick and distribute() leave it.
C12_TerminalUntilReset ==
    [][\A i \in DOMAIN tasks :
          (tasks[i].status \in Terminal /\ tasks'[i].status # tasks[i].status)
          => (ret'.op = "reset" /\ tasks'[i].status = PENDING)]_vars

\* C15: record_task_result for a registered task t and a registered worker w
\* that holds t: on success t becomes COMPLETED; on failure t's error_count
\* rises by one and t becomes FAILED exactly when error_count has reached
\* max_retries, keeping its status otherwise; in both cases one entry of t
\* leaves w.current_tasks, w.current_load drops by one, and the result store
\* maps t to this result, in place of any earlier one, other entries kept.
C15_ResultRecorded ==
    [][(ret'.op = "record_task_result" /\ ret'.held)
       => LET i == ret'.task
              w == ret'.worker
          IN  /\ IF ret'.ok THEN tasks'[i].status = COMPLETED
                 ELSE /\ tasks'[i].error_count = tasks[i].error_count + 1
                      /\ IF tasks'[i].error_count >= tasks'[i].max_retries
                         THEN tasks'[i].status = FAILED
                         ELSE tasks'[i].status = tasks[i].status
              /\ workers'[w].current_tasks = ListRemove(workers[w].current_tasks, i)
              /\ Len(workers'[w].current_tasks) = Len(workers[w].current_tasks) - 1
              /\ workers'[w].current_load = workers[w].current_load - 1
              /\ DOMAIN task_results' = DOMAIN task_results \cup {i}
              /\ task_results'[i] = [worker_id |-> w, success |-> ret'.ok]
              /\ \A j \in DOMAIN task_results \ {i} : task_results'[j] = task_results[j]]_vars

\* a success reported by the worker holding the task, after an earlier
\* failure result of the same task: the stored result is the success
C15_Witness ==
    /\ ret.op = "record_task_result" /\ ret.held /\ ret.ok
    /\ tasks[ret.task].error_count = 1
    /\ tasks[ret.task].status = COMPLETED
    /\ task_results[ret.task] = [worker_id |-> ret.worker, success |-> TRUE]

\* C16: record_task_result with a task id or a worker id that is not
\* registered (one of them or both) runs no callback and leaves the tasks,
\* the workers and the result store as they were.
C16_UnknownIdIsNoOp ==
    [][(/\ ret'.op = "record_task_result"
        /\ (ret'.task \notin DOMAIN tasks \/ ret'.worker \notin DOMAIN workers))
       => /\ tasks' = tasks
          /\ workers' = workers
          /\ task_results' = task_results
          /\ ret'.hooks = <<>>]_vars

\* a result for a task in progress, from a worker id that is not registered
\* while another worker is
C16_Witness ==
    /\ ret.op = "record_task_result"
    /\ ret.task \in DOMAIN tasks
    /\ ret.worker \notin DOMAIN workers
    /\ workers # <<>>
    /\ tasks[ret.task].status = IN_PROGRESS

\* how often the callbacks for status s ran for entity id in the last call
FiredIn(hooks, kind, id, s) == Count(hooks, [kind |-> kind, id |-> id, status |-> s])
Fired(kind, id, s) == FiredIn(ret.hooks, kind, id, s)

\* C17: a monitor tick sets a worker OFFLINE exactly when the age of its
\* heartbeat exceeds heartbeat_timeout_ms and it is not OFFLINE already,
\* whatever its load and status; the OFFLINE worker callbacks run once for
\* that worker then, and not in a tick that finds it OFFLINE or not expired.
C17_OfflineOnExpiredHeartbeat ==
    [][ret'.op = "tick"
       => \A w \in DOMAIN workers :
             LET expired == /\ (now - workers[w].last_heartbeat) > HeartbeatTimeout
                            /\ workers[w].status # OFFLINE
             IN  /\ expired => workers'[w].status = OFFLINE
                 /\ ~expired => (workers'[w].status = OFFLINE <=> workers[w].status = OFFLINE)
                 /\ FiredIn(ret'.hooks, "worker", w, OFFLINE) = IF expired THEN 1 ELSE 0]_vars

\* a tick has set a worker that still holds a task OFFLINE and run the callback
C17_Witness ==
    /\ ret.op = "tick"
    /\ \E w \in DOMAIN workers :
          /\ Fired("worker", w, OFFLINE) = 1
          /\ workers[w].status = OFFLINE
          /\ workers[w].current_load > 0

\* C18: a monitor tick sets a task to TIMEOUT if and only if the task is
\* IN_PROGRESS and the time since its last update exceeds its timeout_ms,
\* and then runs the TIMEOUT task callbacks once; tasks in another status
\* are not timed out, however old.
C18_TimeoutOnlyInProgress ==
    [][ret'.op = "tick"
       => \A i \in DOMAIN tasks :
             LET late == /\ tasks[i].status = IN_PROGRESS
                         /\ (now - tasks[i].updated_at) > tasks[i].timeout_ms
             IN  /\ late => tasks'[i].status = TIMEOUT
                 /\ ~late => (tasks'[i].status = TIMEOUT <=> tasks[i].status = TIMEOUT)
                 /\ FiredIn(ret'.hooks, "task", i, TIMEOUT) = IF late THEN 1 ELSE 0]_vars

\* a tick has timed a task out and run the callback
C18_Witness ==
    /\ ret.op = "tick"
    /\ \E i \in DOMAIN tasks :
          /\ Fired("task", i, TIMEOUT) = 1
          /\ tasks[i].status = TIMEOUT
          /\ tasks[i].updated_at = now

\* C19: update_worker_heartbeat on a registered worker returns True and
\* refreshes last_heartbeat; an OFFLINE worker becomes ONLINE and the ONLINE
\* worker callbacks run once, any other worker keeps its status and no
\* callback runs; for an unknown id it returns False and changes nothing.
C19_HeartbeatRevives ==
    [][ret'.op = "update_worker_heartbeat"
       => LET w == ret'.worker
          IN  IF w \in DOMAIN workers
              THEN /\ ret'.ok
                   /\ workers'[w].last_heartbeat = now
                   /\ workers' = [workers EXCEPT
                         ![w] = [@ EXCEPT !.last_heartbeat = now,
                                          !.status = IF @ = OFFLINE THEN ONLINE ELSE @]]
                   /\ ret'.hooks = IF workers[w].status = OFFLINE
                                   THEN <<[kind |-> "worker", id |-> w, status |-> ONLINE]>>
                                   ELSE <<>>
                   /\ tasks' = tasks
              ELSE /\ ~ret'.ok
                   /\ ret'.hooks = <<>>
                   /\ workers' = workers /\ tasks' = tasks]_vars

\* a heartbeat has brought a worker back ONLINE and run the callback
C19_Witness ==
    /\ ret.op = "update_worker_heartbeat" /\ ret.ok
    /\ ret.hooks = <<[kind |-> "worker", id |-> ret.worker, status |-> ONLINE]>>
    /\ workers[ret.worker].status = ONLINE
    /\ workers[ret.worker].current_load > 0

\* C20: whichever operation of the Process changes the status of a task or
\* of a worker - distribute(), record_task_result, the monitor tick,
\* update_worker_heartbeat - the callbacks registered for the new status run.
C20_HooksOnEveryChange ==
    [][ret'.op \in {"distribute", "record_task_result", "tick", "update_worker_heartbeat"}
       => /\ \A i \in DOMAIN tasks :
                tasks'[i].status # tasks[i].status
                => FiredIn(ret'.hooks, "task", i, tasks'[i].status) > 0
          /\ \A w \in DOMAIN workers :
                workers'[w].status # workers[w].status
                => FiredIn(ret'.hooks, "worker", w, workers'[w].status) > 0]_vars

\* ------------------------------------------------------------------
\* SpecCallbacks: one operation of a Process that has several callbacks
\* registered for a status, some of which raise.  The registries are drawn:
\* one task, one worker that holds it unless it is PENDING.  pre keeps the
\* registries as the operation found them and the registered callbacks;
\* ret holds the operation, the callbacks it called in call order, and
\* whether an exception of a callback reached the caller.
MaxHooksT == 2    \* callbacks registered for one status

\* the lists add_task_hook / add_worker_hook can have built for a status:
\* entry j tells whether the j-th registered callback raises
HookLists == UNION {[1..n -> BOOLEAN] : n \in 0..MaxHooksT}

\* the loop of _trigger_task_hooks / _trigger_worker_hooks over the list of
\* the new status: every callback is called, in list order; what one raises
\* is caught inside the loop
run_hooks(firing, registered) ==
    [j \in DOMAIN registered |->
        [kind |-> firing.kind, id |-> firing.id, status |-> firing.status,
         hook |-> j, raised |-> registered[j]]]

\* the callbacks called by an operation whose _trigger_*_hooks calls found a
\* changed status, the same list being registered for every status
RECURSIVE invocations(_, _)
invocations(firings, registered) ==
    IF firings = <<>> THEN <<>>
    ELSE run_hooks(Head(firings), registered) \o invocations(Tail(firings), registered)

CallbackRet(op, invoked) == [op |-> op, invoked |-> invoked, escaped |-> FALSE]

frameCb == <<strategy, now, pre, th>>

InitCallbacks ==
    /\ \E s \in {PENDING, ASSIGNED, IN_PROGRESS, TIMEOUT}, stamp \in {0, 0 - Horizon},
          max_retries \in 1..MaxRetriesP :
          tasks = <<[NewTask(1, NoCap, max_retries, TaskTimeout, stamp) EXCEPT !.status = s]>>
    /\ \E max_load \in 1..MaxLoadP, offline \in BOOLEAN, beat \in {0, 0 - Horizon} :
          LET held == IF tasks[1].status = PENDING THEN <<>> ELSE <<1>>
              w == [NewWorker({"basic-scraping"}, max_load, beat)
                       EXCEPT !.current_tasks = held, !.current_load = Len(held)]
          IN  workers = <<[w EXCEPT !.status = IF offline THEN OFFLINE
                                               ELSE IF Len(held) >= max_load THEN BUSY
                                               ELSE ONLINE]>>
    /\ strategy = LEAST_BUSY
    /\ task_results = <<>>
    /\ now = 0
    /\ \E registered \in HookLists :
          pre = [tasks |-> tasks, workers |-> workers, hooks |-> registered]
    /\ ret = CallbackRet("none", <<>>)
    /\ th = <<>>

\* Process.record_task_result for the task and the worker
CbRecordTaskResult(success) ==
    /\ ret.op = "none"
    /\ LET r == record_task_result(tasks, workers, task_results, 1, 1, success, now)
       IN  /\ tasks' = r.T
           /\ workers' = r.W
           /\ task_results' = r.R
           /\ ret' = CallbackRet("record_task_result", invocations(r.hooks, pre.hooks))
    /\ UNCHANGED frameCb

\* Process.update_worker_heartbeat for the worker
CbUpdateWorkerHeartbeat ==
    /\ ret.op = "none"
    /\ LET r == update_worker_heartbeat(workers, 1, now)
       IN  /\ workers' = r.W
           /\ ret' = CallbackRet("update_worker_heartbeat", invocations(r.hooks, pre.hooks))
    /\ UNCHANGED <<tasks, task_results, frameCb>>

\* one pass of the loop of Process._monitor_tasks
CbMonitorTick ==
    /\ ret.op = "none"
    /\ \E r \in {monitor_tick(strategy, tasks, workers, now)} :
          /\ tasks' = r.T
          /\ workers' = r.W
          /\ ret' = CallbackRet("tick", invocations(r.hooks, pre.hooks))
    /\ UNCHANGED <<task_results, frameCb>>

NextCallbacks ==
    \/ \E success \in BOOLEAN : CbRecordTaskResult(success)
    \/ CbUpdateWorkerHeartbeat
    \/ CbMonitorTick

SpecCallbacks == InitCallbacks /\ [][NextCallbacks]_vars

\* the callbacks the operation called for one task or worker, in call order
InvokedFor(kind, id) ==
    Filter(ret.invoked, {e \in Range(ret.invoked) : e.kind = kind /\ e.id = id})

\* every registered callback once, in registration order
AllOnce(kind, id, s) == run_hooks([kind |-> kind, id |-> id, status |-> s], pre.hooks)

\* C21: when record_task_result, update_worker_heartbeat or a monitor tick
\* has changed the status of a task or of a worker into S, it has called
\* every callback registered for S exactly once, in registration order,
\* whichever of them raise, and no exception has reached the caller; for a
\* task or worker whose status it left as it was it has called none.
C21_EveryHookOnceInOrder ==
    ret.op # "none" =>
        /\ ~ret.escaped
        /\ \A i \in DOMAIN tasks :
              InvokedFor("task", i) = IF tasks[i].status # pre.tasks[i].status
                                      THEN AllOnce("task", i, tasks[i].status) ELSE <<>>
        /\ \A w \in DOMAIN workers :
              InvokedFor("worker", w) = IF workers[w].status # pre.workers[w].status
                                        THEN AllOnce("worker", w, workers[w].status) ELSE <<>>

\* what does hold: the callbacks called are those of the status changes the
\* operation hands to _trigger_*_hooks - the task of record_task_result, the
\* worker a heartbeat revives, the workers and tasks the two checks of the
\* tick set OFFLINE and TIMEOUT - each list run whole and in order
TriggeredHooksRunInOrder ==
    ret.op # "none" =>
        /\ ~ret.escaped
        /\ \A i \in DOMAIN tasks :
              InvokedFor("task", i) =
                  IF /\ tasks[i].status # pre.tasks[i].status
                     /\ \/ ret.op = "record_task_result"
                        \/ ret.op = "tick" /\ tasks[i].status = TIMEOUT
                  THEN AllOnce("task", i, tasks[i].status) ELSE <<>>
        /\ \A w \in DOMAIN workers :
              InvokedFor("worker", w) =
                  IF /\ workers[w].status # pre.workers[w].status
                     /\ \/ ret.op = "update_worker_heartbeat"
                        \/ ret.op = "tick" /\ workers[w].status = OFFLINE
                  THEN AllOnce("worker", w, workers[w].status) ELSE <<>>

\* ------------------------------------------------------------------
\* SpecMonitor: start(), stop() and the monitor threads of one Process.
\* th[m] is the frame of the m-th thread start() has created: pc, its place
\* in _monitor_tasks; left, what remains of its sleep; erred, whether a pass
\* of the loop has raised ("raised") and whether a later pass has begun
\* ("recovered"); stopped, whether stop() has been called while it was the
\* monitoring thread.  ret holds the fields of the Process (running,
\* monitoring_thread with 0 for None) and the place of the caller: idle, or
\* inside the join of stop() with join_left remaining.  One unit of time is
\* 5 seconds.
MaxMonitors == 2      \* threads start() can create in one run

JoinTimeout == 1      \* join(timeout=5.0)
CheckInterval == 2    \* task_check_interval_sec = 10

Monitors == 1..MaxMonitors

NoThread == [pc |-> "unborn", left |-> 0, erred |-> "no", stopped |-> FALSE]

TickStages == {"heartbeats", "timeouts", "distribute"}

Alive(f) == f.pc \notin {"unborn", "done"}

\* a slip: the loop has no try/except, an exception ends the thread
raise_in_tick_uncaught(f) == [f EXCEPT !.pc = "done", !.erred = "raised"]

\* an exception raised inside the try of _monitor_tasks: control passes to
\* the except clause
raise_in_tick(f) == [f EXCEPT !.pc = "except", !.erred = "raised"]

frameM == <<strategy, task_results, now, pre>>

InitMonitor ==
    /\ \E s \in {PENDING, IN_PROGRESS}, beat \in {0, 0 - Horizon} :
          /\ tasks = <<[NewTask(1, NoCap, MaxRetriesP, TaskTimeout, 0 - Horizon)
                           EXCEPT !.status = s]>>
          /\ LET held == IF s = PENDING THEN <<>> ELSE <<1>>
             IN  workers = <<[NewWorker({"basic-scraping"}, MaxLoadP, beat)
                                 EXCEPT !.current_tasks = held, !.current_load = Len(held)]>>
    /\ strategy = LEAST_BUSY
    /\ task_results = <<>>
    /\ now = 0
    /\ pre = NoPre
    /\ ret = [running |-> FALSE, monitoring_thread |-> 0, caller |-> "idle", join_left |-> 0]
    /\ th = [m \in Monitors |-> NoThread]

\* Process.start: a warning and nothing else while running; otherwise the
\* flag is set and a new thread is created and started
Start ==
    /\ ret.caller = "idle"
    /\ IF ret.running THEN UNCHANGED <<ret, th>>
       ELSE \E m \in Monitors :
               /\ th[m].pc = "unborn"
               /\ \A k \in Monitors : k < m => th[k].pc # "unborn"
               /\ ret' = [ret EXCEPT !.running = TRUE, !.monitoring_thread = m]
               /\ th' = [th EXCEPT ![m].pc = "test"]
    /\ UNCHANGED <<tasks, workers, frameM>>

\* Process.stop up to the join: a warning and nothing else while stopped;
\* otherwise the flag is cleared and the caller waits for the thread
Stop ==
    /\ ret.caller = "idle"
    /\ IF ~ret.running THEN UNCHANGED <<ret, th>>
       ELSE /\ ret' = [ret EXCEPT !.running = FALSE,
                                  !.caller = IF ret.monitoring_thread # 0 THEN "join" ELSE "idle",
                                  !.join_left = JoinTimeout]
            /\ th' = [m \in Monitors |->
                         IF m = ret.monitoring_thread /\ Alive(th[m])
                         THEN [th[m] EXCEPT !.stopped = TRUE] ELSE th[m]]
    /\ UNCHANGED <<tasks, workers, frameM>>

\* the join of stop() returns: the thread has ended, or the 5 seconds are over
JoinReturn ==
    /\ ret.caller = "join"
    /\ th[ret.monitoring_thread].pc = "done" \/ ret.join_left = 0
    /\ ret' = [ret EXCEPT !.caller = "idle", !.join_left = 0]
    /\ UNCHANGED <<tasks, workers, th, frameM>>

\* while self.running
LoopTest(m) ==
    /\ th[m].pc = "test"
    /\ th' = [th EXCEPT ![m].pc = IF ret.running THEN "heartbeats" ELSE "done",
                        ![m].erred = IF ret.running /\ @ = "raised" THEN "recovered" ELSE @]
    /\ UNCHANGED <<tasks, workers, ret, frameM>>

\* self._check_worker_heartbeats(), which may raise
TickHeartbeats(m, raises) ==
    /\ th[m].pc = "heartbeats"
    /\ IF raises
       THEN /\ th' = [th EXCEPT ![m] = raise_in_tick(@)]
            /\ workers' = workers
       ELSE /\ th' = [th EXCEPT ![m].pc = "timeouts"]
            /\ workers' = check_worker_heartbeats(workers, now)
    /\ UNCHANGED <<tasks, ret, frameM>>

\* self._check_task_timeouts(), which may raise
TickTimeouts(m, raises) ==
    /\ th[m].pc = "timeouts"
    /\ IF raises
       THEN /\ th' = [th EXCEPT ![m] = raise_in_tick(@)]
            /\ tasks' = tasks
       ELSE /\ th' = [th EXCEPT ![m].pc = "distribute"]
            /\ tasks' = check_task_timeouts(tasks, now)
    /\ UNCHANGED <<workers, ret, frameM>>

\* self._distribute_tasks(), which may raise; then time.sleep begins
TickDistribute(m, raises) ==
    /\ th[m].pc = "distribute"
    /\ IF raises
       THEN /\ th' = [th EXCEPT ![m] = raise_in_tick(@)]
            /\ UNCHANGED <<tasks, workers>>
       ELSE /\ th' = [th EXCEPT ![m].pc = "sleep", ![m].left = CheckInterval]
            /\ \E r \in {distribute(strategy, tasks, workers, now)} :
                  tasks' = r.T /\ workers' = r.W
    /\ UNCHANGED <<ret, frameM>>

\* except Exception: the error is logged; then time.sleep begins
TickExcept(m) ==
    /\ th[m].pc = "except"
    /\ th' = [th EXCEPT ![m].pc = "sleep", ![m].left = CheckInterval]
    /\ UNCHANGED <<tasks, workers, ret, frameM>>

\* time.sleep returns
Wake(m) ==
    /\ th[m].pc = "sleep" /\ th[m].left = 0
    /\ th' = [th EXCEPT ![m].pc = "test"]
    /\ UNCHANGED <<tasks, workers, ret, frameM>>

\* one unit of time passes: no sleep and no join is kept past its end
Elapse ==
    /\ \A m \in Monitors : th[m].pc = "sleep" => th[m].left > 0
    /\ ret.caller = "join" => ret.join_left > 0 /\ th[ret.monitoring_thread].pc # "done"
    /\ ret.caller = "join" \/ \E m \in Monitors : th[m].pc = "sleep"
    /\ th' = [m \in Monitors |->
                 IF th[m].pc = "sleep" THEN [th[m] EXCEPT !.left = @ - 1] ELSE th[m]]
    /\ ret' = IF ret.caller = "join" THEN [ret EXCEPT !.join_left = @ - 1] ELSE ret
    /\ UNCHANGED <<tasks, workers, frameM>>

MonitorStep(m) ==
    \/ LoopTest(m)
    \/ TickHeartbeats(m, TRUE) \/ TickHeartbeats(m, FALSE)
    \/ TickTimeouts(m, TRUE) \/ TickTimeouts(m, FALSE)
    \/ TickDistribute(m, TRUE) \/ TickDistribute(m, FALSE)
    \/ TickExcept(m)
    \/ Wake(m)

NextMonitor ==
    \/ Start
    \/ Stop
    \/ JoinReturn
    \/ \E m \in Monitors : MonitorStep(m)
    \/ Elapse

SpecMonitor == InitMonitor /\ [][NextMonitor]_vars

\* the threads are scheduled by the operating system, each gets to run; time
\* passes; the join returns once it can.  Nothing makes the caller call.
SpecMonitorFair ==
    /\ SpecMonitor
    /\ \A m \in Monitors : WF_vars(MonitorStep(m))
    /\ WF_vars(JoinReturn)
    /\ WF_vars(Elapse)

\* C22: an exception raised in a pass of the monitor loop does not end the
\* monitor: unless stop() has been called on it, the thread begins another
\* pass.
C22_TickFollowsError ==
    \A m \in Monitors :
        (th[m].erred = "raised") ~> (th[m].erred = "recovered" \/ th[m].stopped)

\* a thread nobody has stopped has begun a pass after one that raised, and
\* that pass has handed the pending task to the worker
C22_Witness ==
    \E m \in Monitors :
        /\ th[m].erred = "recovered" /\ ~th[m].stopped /\ th[m].pc = "sleep"
        /\ ret.running
        /\ pre = NoPre /\ tasks[1].status = ASSIGNED /\ workers[1].current_tasks = <<1>>

\* C23: whatever start() and stop() calls have been made, at most one
\* monitor thread is inside a pass of the loop.
C23_OneMonitorTicks ==
    Cardinality({m \in Monitors : th[m].pc \in TickStages}) <= 1

\* C24: a monitor thread whose Process has been stopped begins no further
\* pass and ends.
C24_StoppedMonitorEnds ==
    \A m \in Monitors : [](th[m].stopped => <>(th[m].pc = "done"))

\* what does hold: the thread ends when the Process is not started again
StoppedForGoodEnds ==
    \A m \in Monitors : [](th[m].stopped /\ []~ret.running => <>(th[m].pc = "done"))

\* ------------------------------------------------------------------
\* SpecState: Process.save_state on a Process P, then Process.load_state of
\* the document on a Process Q.  pre is P: its registries, result store and
\* settings.  tasks, workers, task_results and strategy are Q's; th holds
\* Q's two timing settings, what Q held before the load, and whether the
\* load has been done; ret is the document in the file.  The records here
\* carry every attribute of Task, Worker and TaskResult.  A dict of strings
\* is the set of its items; the optional dict of a TaskResult is <<>> for
\* None and <<d>> for the dict d.
MaxRecordsS == 2    \* tasks of P, and workers of P

None == "None"
NoDoc == [written |-> FALSE]

\* datetime.isoformat and datetime.fromisoformat
isoformat(stamp) == <<"iso-8601", stamp>>
fromisoformat(text) == text[2]

\* the enum member of a value: TaskStatus(v), WorkerStatus(v), DistributionStrategy(v)
EnumOf(members, v) == CHOOSE s \in members : s = v

\* Task.__init__ with the uuid and the clock reading it takes; no data is
\* passed as the empty dict
Task_init(id, url, priority, timeout_ms, data, max_retries, t) ==
    [id |-> id, url |-> url, priority |-> priority, status |-> PENDING,
     created_at |-> t, updated_at |-> t, timeout_ms |-> timeout_ms,
     data |-> IF data = {} THEN {} ELSE data,       \* data or {}
     error_count |-> 0, max_retries |-> max_retries]

\* Worker.__init__ with the uuid and the clock reading it takes; no
\* capabilities are passed as the empty list
Worker_init(id, name, ip_address, capabilities, max_load, t) ==
    [id |-> id, name |-> name, status |-> ONLINE,
     capabilities |-> IF capabilities = <<>>      \* capabilities or [...]
                      THEN <<"basic-scraping">> ELSE capabilities,
     current_load |-> 0, max_load |-> max_load, ip_address |-> ip_address,
     last_heartbeat |-> t, current_tasks |-> <<>>]

\* TaskResult.__init__ with the clock reading it takes
TaskResult_init(task_id, worker_id, success, execution_time_ms, data, error, t) ==
    [task_id |-> task_id, worker_id |-> worker_id, success |-> success,
     execution_time_ms |-> execution_time_ms, data |-> data, error |-> error,
     completed_at |-> t]

Task_to_dict(k) ==
    [id |-> k.id, url |-> k.url, priority |-> k.priority, status |-> k.status,
     created_at |-> isoformat(k.created_at), updated_at |-> isoformat(k.updated_at),
     timeout_ms |-> k.timeout_ms, data |-> k.data, error_count |-> k.error_count,
     max_retries |-> k.max_retries]

\* Task.from_dict, the constructor taking the uuid id and the clock reading t
Task_from_dict(d, id, t) ==
    [Task_init(id, d.url, d.priority, d.timeout_ms, d.data, d.max_retries, t)
        EXCEPT !.id = d.id,
               !.status = EnumOf(TaskStatus, d.status),
               !.created_at = fromisoformat(d.created_at),
               !.updated_at = fromisoformat(d.updated_at),
               !.error_count = d.error_count]

Worker_to_dict(w) ==
    [id |-> w.id, name |-> w.name, status |-> w.status, capabilities |-> w.capabilities,
     current_load |-> w.current_load, max_load |-> w.max_load,
     ip_address |-> w.ip_address, last_heartbeat |-> isoformat(w.last_heartbeat),
     current_tasks |-> w.current_tasks]

\* a slip: current_load is not restored
Worker_from_dict_noload(d, id, t) ==
    [Worker_init(id, d.name, d.ip_address, d.capabilities, d.max_load, t)
        EXCEPT !.id = d.id,
               !.status = EnumOf(WorkerStatus, d.status),
               !.last_heartbeat = fromisoformat(d.last_heartbeat),
               !.current_tasks = d.current_tasks]

\* Worker.from_dict, the constructor taking the uuid id and the clock reading t
Worker_from_dict(d, id, t) ==
    [Worker_init(id, d.name, d.ip_address, d.capabilities, d.max_load, t)
        EXCEPT !.id = d.id,
               !.status = EnumOf(WorkerStatus, d.status),
               !.current_load = d.current_load,
               !.last_heartbeat = fromisoformat(d.last_heartbeat),
               !.current_tasks = d.current_tasks]

TaskResult_to_dict(r) ==
    [task_id |-> r.task_id, worker_id |-> r.worker_id, success |-> r.success,
     data |-> r.data, error |-> r.error, execution_time_ms |-> r.execution_time_ms,
     completed_at |-> isoformat(r.completed_at)]

TaskResult_from_dict(d, t) ==
    [TaskResult_init(d.task_id, d.worker_id, d.success, d.execution_time_ms, d.data, d.error, t)
        EXCEPT !.completed_at = fromisoformat(d.completed_at)]

\* D[key] = x on a dict kept in insertion order, keys(D) naming the key of
\* each entry: an entry with that key is replaced where it stands
dict_set(D, keys, key, x) ==
    IF \E i \in DOMAIN D : keys[i] = key
    THEN [i \in DOMAIN D |-> IF keys[i] = key THEN x ELSE D[i]]
    ELSE Append(D, x)

\* TaskDistributor.add_task / add_worker
add_by_id(D, x) == dict_set(D, [i \in DOMAIN D |-> D[i].id], x.id, x)

\* self.task_results[result.task_id] = result
add_result(D, r) == dict_set(D, [i \in DOMAIN D |-> D[i].task_id], r.task_id, r)

\* Process.save_state: the document written
save_state(P) ==
    [written |-> TRUE,
     tasks |-> [i \in DOMAIN P.tasks |-> Task_to_dict(P.tasks[i])],
     workers |-> [i \in DOMAIN P.workers |-> Worker_to_dict(P.workers[i])],
     results |-> [i \in DOMAIN P.results |-> TaskResult_to_dict(P.results[i])],
     settings |-> [distribution_strategy |-> P.settings.distribution_strategy,
                   heartbeat_timeout_ms |-> P.settings.heartbeat_timeout_ms,
                   task_check_interval_sec |-> P.settings.task_check_interval_sec]]

\* the three loops of Process.load_state over the cleared registries
RECURSIVE load_tasks(_, _, _)
load_tasks(D, docs, t) ==
    IF docs = <<>> THEN D
    ELSE load_tasks(add_by_id(D, Task_from_dict(Head(docs), <<"uuid4">>, t)), Tail(docs), t)

RECURSIVE load_workers(_, _, _)
load_workers(D, docs, t) ==
    IF docs = <<>> THEN D
    ELSE load_workers(add_by_id(D, Worker_from_dict(Head(docs), <<"uuid4">>, t)), Tail(docs), t)

RECURSIVE load_results(_, _, _)
load_results(D, docs, t) ==
    IF docs = <<>> THEN D
    ELSE load_results(add_result(D, TaskResult_from_dict(Head(docs), t)), Tail(docs), t)

\* Process.load_state: what the Process holds after it
load_state(doc, t) ==
    [tasks |-> load_tasks(<<>>, doc.tasks, t),
     workers |-> load_workers(<<>>, doc.workers, t),
     results |-> load_results(<<>>, doc.results, t),
     settings |-> [distribution_strategy |->
                       EnumOf(DistributionStrategy, doc.settings.distribution_strategy),
                   heartbeat_timeout_ms |-> doc.settings.heartbeat_timeout_ms,
                   task_check_interval_sec |-> doc.settings.task_check_interval_sec]]

\* a task as create_task leaves it, and one that was assigned, failed once
\* with max_retries 1 and carries a capability requirement
TaskSample(i, kind) ==
    IF kind = "new"
    THEN Task_init(<<"task", i>>, <<"url", i>>, 1, TaskTimeout, {}, MaxRetriesP, 0)
    ELSE [Task_init(<<"task", i>>, <<"url", i>>, 2, TaskTimeout + 1,
                    {<<"required_capability", "javascript">>}, 1, 0 - Horizon)
             EXCEPT !.status = FAILED, !.updated_at = 0 - 1, !.error_count = 1,
                    !.data = {<<"required_capability", "javascript">>,
                              <<"last_error", "boom">>}]

\* a worker as create_worker leaves it, and one that is BUSY with a task
WorkerSample(i, kind) ==
    IF kind = "new"
    THEN Worker_init(<<"worker", i>>, <<"name", i>>, <<"ip", i>>, <<>>, MaxLoadP, 0)
    ELSE [Worker_init(<<"worker", i>>, <<"name", i>>, <<"ip", i>>,
                      <<"javascript", "basic-scraping">>, 1, 0 - Horizon)
             EXCEPT !.status = BUSY, !.current_load = 1, !.last_heartbeat = 0 - 1,
                    !.current_tasks = <<<<"task", i>>>>]

\* TaskResult.create_success and TaskResult.create_failure
ResultSample(i, kind) ==
    IF kind = "success"
    THEN TaskResult_init(<<"task", i>>, <<"worker", 1>>, TRUE, 9,
                         <<{<<"scraped_content", "text">>}>>, None, 0 - 1)
    ELSE TaskResult_init(<<"task", i>>, <<"worker", 1>>, FALSE, 7, <<>>, "boom", 0)

\* the states of a Process P the check saves
ProcessSamples(n) ==
    UNION {
        {[tasks |-> [i \in DOMAIN tk |-> TaskSample(i, tk[i])],
          workers |-> [i \in DOMAIN wk |-> WorkerSample(i, wk[i])],
          results |-> LET has == Filter([i \in DOMAIN tk |-> i],
                                        {i \in DOMAIN tk : rk[i] # "none"})
                      IN  [j \in DOMAIN has |-> ResultSample(has[j], rk[has[j]])],
          settings |-> [distribution_strategy |-> s, heartbeat_timeout_ms |-> hb,
                        task_check_interval_sec |-> iv]] :
            rk \in [DOMAIN tk -> {"none", "success", "failure"}],
            wk \in UNION {[1..k -> {"new", "busy"}] : k \in 0..n},
            s \in DistributionStrategy,
            hb \in {HeartbeatTimeout, HeartbeatTimeout + 1},
            iv \in {CheckInterval, CheckInterval + 1}} :
        tk \in UNION {[1..k -> {"new", "failed"}] : k \in 0..n}}

frameS == <<now, pre>>

InitState ==
    /\ pre \in ProcessSamples(MaxRecordsS)
    /\ \E before \in {"new", "used"} :
          /\ tasks = IF before = "new" THEN <<>>
                     ELSE <<TaskSample(1, "new"), TaskSample(MaxRecordsS + 1, "failed")>>
          /\ workers = IF before = "new" THEN <<>>
                       ELSE <<WorkerSample(MaxRecordsS + 1, "busy")>>
          /\ task_results = IF before = "new" THEN <<>>
                            ELSE <<ResultSample(MaxRecordsS + 1, "failure")>>
    /\ strategy = LEAST_BUSY
    /\ now = 0
    /\ th = [heartbeat_timeout_ms |-> HeartbeatTimeout,
             task_check_interval_sec |-> CheckInterval, loaded |-> FALSE,
             before |-> [tasks |-> tasks, workers |-> workers, results |-> task_results]]
    /\ ret = NoDoc

\* P.save_state(file)
SaveState ==
    /\ ~ret.written
    /\ ret' = save_state(pre)
    /\ UNCHANGED <<tasks, workers, strategy, task_results, th, frameS>>

\* Q.load_state(file)
LoadState ==
    /\ ret.written /\ ~th.loaded
    /\ LET Q == load_state(ret, now)
       IN  /\ tasks' = Q.tasks
           /\ workers' = Q.workers
           /\ task_results' = Q.results
           /\ strategy' = Q.settings.distribution_strategy
           /\ th' = [th EXCEPT !.heartbeat_timeout_ms = Q.settings.heartbeat_timeout_ms,
                               !.task_check_interval_sec = Q.settings.task_check_interval_sec,
                               !.loaded = TRUE]
    /\ UNCHANGED <<ret, frameS>>

NextState == SaveState \/ LoadState

SpecState == InitState /\ [][NextState]_vars

MaxUrlsK == 3       \* URLs of the link graph
MaxDepthK == 2      \* largest max_depth

Urls == 1..MaxUrlsK
NoSession == 0

\* max_urls_per_session: a quota met at every URL, one met at every other
\* URL, and one never met
QuotaValues == {1, 2, MaxUrlsK + 1}

\* CrawlManager._get_domain: the last URL is on a domain of its own
get_domain(url) == IF url = MaxUrlsK THEN "b.test" ELSE "a.test"

\* the list a page's links are reported in
LinkList(S) == SortStable([i \in 1..Cardinality(S) |->
                              CHOOSE u \in S : Cardinality({v \in S : v < u}) = i - 1],
                          [u \in S |-> u])

\* CrawlManager._filter_links_to_follow
filter_links_to_follow(links, base_url, visited_urls, same_domain_only) ==
    Filter(links, {u \in Range(links) :
                      /\ u \notin visited_urls
                      /\ same_domain_only => get_domain(u) = get_domain(base_url)})

\* scraper.start_session as the manager sees it: M with the session opened
\* and made the active one, or with None when none was handed out
start_session(M, handed_out) ==
    IF handed_out
    THEN [M EXCEPT !.opened = @ + 1, !.active_session_id = M.opened + 1]
    ELSE [M EXCEPT !.active_session_id = NoSession]

\* a slip: the old session is not ended before the new one is opened
rotate_session_noend(M, handed_out) ==
    IF M.active_session_id # NoSession
    THEN [start_session(M, handed_out) EXCEPT !.urls_in_session = 0]
    ELSE M

\* CrawlManager._rotate_session
rotate_session(M, handed_out) ==
    IF M.active_session_id # NoSession
    THEN [start_session([M EXCEPT !.ended = Append(@, M.active_session_id)], handed_out)
             EXCEPT !.urls_in_session = 0]
    ELSE M

\* a slip: crawl has no try/except
crawl_except_missing(M, url) == [M |-> M, raised |-> TRUE, success |-> FALSE, links_to_follow |-> <<>>]

\* the except clause of CrawlManager.crawl: a failure result is returned
crawl_except(M, url) == [M |-> M, raised |-> FALSE, success |-> FALSE, links_to_follow |-> <<>>]

\* CrawlManager.crawl(url) called at the given depth of the traversal.  o
\* tells how the collaborators answer: o.lazy and o.rotate whether
\* start_session hands out a session, o.scrape whether scrape_url returns a
\* success, a failure or raises, o.save whether save_to_database raises.
crawl(M, cfg, url, depth, o) ==
    LET M1 == IF M.active_session_id = NoSession
              THEN [start_session(M, o.lazy) EXCEPT !.urls_in_session = 0]
              ELSE M
        M2 == [M1 EXCEPT !.scraped = Append(@, [url |-> url, depth |-> depth,
                                                session |-> M1.active_session_id,
                                                outcome |-> o.scrape, save |-> o.save])]
        M3 == [M2 EXCEPT !.urls_in_session = @ + 1, !.visited_urls = @ \cup {url}]
        M4 == IF M3.urls_in_session >= cfg.max_urls_per_session
              THEN rotate_session(M3, o.rotate) ELSE M3
    IN  IF o.scrape = "raise" THEN crawl_except(M2, url)
        ELSE IF o.scrape = "success" /\ o.save = "raise" THEN crawl_except(M3, url)
        ELSE [M |-> M4, raised |-> FALSE, success |-> o.scrape = "success",
              links_to_follow |->
                  IF cfg.follow_links /\ o.scrape = "success"
                  THEN filter_links_to_follow(cfg.links[url], url, M4.visited_urls,
                                              cfg.same_domain_only)
                  ELSE <<>>]

\* the answers that make a difference to a crawl call in state M
Answers(M, cfg) ==
    {o \in [lazy : BOOLEAN, scrape : {"success", "failure", "raise"},
            save : {"ok", "raise"}, rotate : BOOLEAN] :
        /\ M.active_session_id # NoSession => o.lazy
        /\ o.scrape # "success" => o.save = "ok"
        /\ (\/ o.scrape = "raise" \/ o.save = "raise"
            \/ M.urls_in_session + 1 < cfg.max_urls_per_session
            \/ (M.active_session_id = NoSession /\ ~o.lazy
                /\ 1 >= cfg.max_urls_per_session)) => o.rotate}

\* a slip: links are queued at max_depth too
may_follow_at_max(depth, max_depth) == depth <= max_depth

\* if depth < max_depth
may_follow(depth, max_depth) == depth < max_depth

\* a slip: nothing is skipped
already_crawled_never(url, crawled_urls) == FALSE

\* if url in crawled_urls
already_crawled(url, crawled_urls) == url \in crawled_urls

NewManager ==
    [active_session_id |-> NoSession, urls_in_session |-> 0, visited_urls |-> {},
     opened |-> 0, ended |-> <<>>, scraped |-> <<>>]

NoCall ==
    [pc |-> "call", crawl_queue |-> <<>>, crawled_urls |-> {}, successful_urls |-> {},
     failed_urls |-> {}, first_opened |-> FALSE, queued |-> {}, skipped |-> {},
     result |-> "none"]

frameK == <<tasks, workers, strategy, task_results, now, pre>>

InitCrawl ==
    /\ tasks = <<>> /\ workers = <<>> /\ task_results = <<>>
    /\ strategy = LEAST_BUSY
    /\ now = 0
    /\ \E links \in [Urls -> SUBSET Urls], max_depth \in 0..MaxDepthK,
          quota \in QuotaValues, same_domain_only \in BOOLEAN :
          pre = [links |-> [u \in Urls |-> LinkList(links[u])], max_depth |-> max_depth,
                 max_urls_per_session |-> quota, follow_links |-> TRUE,
                 same_domain_only |-> same_domain_only]
    /\ ret = NewManager
    /\ th = NoCall

\* crawl_with_depth up to its loop: the queue is seeded and the first
\* session asked for
CrawlBegin(handed_out) ==
    /\ th.pc = "call"
    /\ ret' = [start_session(ret, handed_out) EXCEPT !.urls_in_session = 0]
    /\ th' = [th EXCEPT !.pc = "loop", !.crawl_queue = <<<<1, 0>>>>, !.queued = {1},
                        !.first_opened = handed_out]
    /\ UNCHANGED frameK

\* a pass of the loop that finds the URL crawled already: continue
CrawlSkip ==
    /\ th.pc = "loop" /\ th.crawl_queue # <<>>
    /\ already_crawled(Head(th.crawl_queue)[1], th.crawled_urls)
    /\ th' = [th EXCEPT !.crawl_queue = Tail(@), !.skipped = @ \cup {Head(th.crawl_queue)[1]}]
    /\ UNCHANGED <<ret, frameK>>

\* a pass of the loop that crawls the URL; an exception out of crawl ends
\* the traversal in the except clause of crawl_with_depth
CrawlUrl(o) ==
    /\ th.pc = "loop" /\ th.crawl_queue # <<>>
    /\ ~already_crawled(Head(th.crawl_queue)[1], th.crawled_urls)
    /\ o \in Answers(ret, pre)
    /\ LET url == Head(th.crawl_queue)[1]
           depth == Head(th.crawl_queue)[2]
           r == crawl(ret, pre, url, depth, o)
           crawled == th.crawled_urls \cup {url}
           follow == IF r.success /\ may_follow(depth, pre.max_depth)
                     THEN Filter(r.links_to_follow,
                                 {u \in Range(r.links_to_follow) : u \notin crawled})
                     ELSE <<>>
       IN  IF r.raised
           THEN /\ ret' = IF r.M.active_session_id # NoSession
                          THEN [r.M EXCEPT !.ended = Append(@, r.M.active_session_id),
                                           !.active_session_id = NoSession]
                          ELSE r.M
                /\ th' = [th EXCEPT !.pc = "done", !.crawl_queue = Tail(@),
                                    !.result = [success |-> FALSE]]
           ELSE /\ ret' = r.M
                /\ th' = [th EXCEPT
                             !.crawl_queue = Tail(@) \o [j \in DOMAIN follow |->
                                                            <<follow[j], depth + 1>>],
                             !.crawled_urls = crawled,
                             !.successful_urls = IF r.success THEN @ \cup {url} ELSE @,
                             !.failed_urls = IF r.success THEN @ ELSE @ \cup {url},
                             !.queued = @ \cup Range(follow)]
    /\ UNCHANGED frameK

\* the queue is empty: the session is ended and the statistics returned
CrawlEnd ==
    /\ th.pc = "loop" /\ th.crawl_queue = <<>>
    /\ ret' = IF ret.active_session_id # NoSession
              THEN [ret EXCEPT !.ended = Append(@, ret.active_session_id),
                               !.active_session_id = NoSession]
              ELSE ret
    /\ th' = [th EXCEPT !.pc = "done", !.result = [success |-> TRUE]]
    /\ UNCHANGED frameK

NextCrawl ==
    \/ \E handed_out \in BOOLEAN : CrawlBegin(handed_out)
    \/ CrawlSkip
    \/ \E o \in Answers(ret, pre) : CrawlUrl(o)
    \/ CrawlEnd

SpecCrawl == InitCrawl /\ [][NextCrawl]_vars

\* the scrape_url calls made for a URL
ScrapesOf(u) == {k \in DOMAIN ret.scraped : ret.scraped[k].url = u}

\* the scrape_url calls after which crawl returned a failure
FailedScrapes ==
    {k \in DOMAIN ret.scraped : ret.scraped[k].outcome # "success" \/ ret.scraped[k].save = "raise"}

RECURSIVE ReachWithin(_)
ReachWithin(k) ==
    IF k = 0 THEN {1}
    ELSE LET R == ReachWithin(k - 1)
         IN  R \cup UNION {Range(pre.links[u]) : u \in R}

\* C27: crawl_with_depth(start, d) scrapes no URL at a depth above d, and
\* every URL it scrapes at depth k is within k links of the start URL; with
\* d = 0 it scrapes the start URL only.
C27_DepthBound ==
    \A k \in DOMAIN ret.scraped :
        /\ ret.scraped[k].depth <= pre.max_depth
        /\ ret.scraped[k].url \in ReachWithin(ret.scraped[k].depth)
        /\ pre.max_depth = 0 => ret.scraped[k].url = 1

\* a page scraped at depth max_depth links to a page that is never
\* scraped, links to other domains being followed
C27_Witness ==
    /\ th.pc = "done" /\ pre.max_depth > 0 /\ ~pre.same_domain_only
    /\ \E k \in DOMAIN ret.scraped :
          /\ ret.scraped[k].depth = pre.max_depth
          /\ ret.scraped[k].outcome = "success" /\ ret.scraped[k].save = "ok"
          /\ \E u \in Range(pre.links[ret.scraped[k].url]) : ScrapesOf(u) = {}

\* C28: within one crawl_with_depth call scrape_url is called at most once
\* for a URL; a dequeued URL that is in the crawled set is dropped from the
\* queue, nothing is scraped and nothing queued for it.
C28_ScrapedOncePerUrl ==
    /\ [](\A u \in Urls : Cardinality(ScrapesOf(u)) <= 1)
    /\ [][(/\ th.pc = "loop" /\ th.crawl_queue # <<>>
           /\ Head(th.crawl_queue)[1] \in th.crawled_urls)
          => (th'.crawl_queue = Tail(th.crawl_queue) /\ ret' = ret)]_vars

\* a URL queued twice has been scraped once and skipped once, in a graph
\* with a cycle through the start URL
C28_Witness ==
    /\ th.pc = "done"
    /\ \E u \in th.skipped : Cardinality(ScrapesOf(u)) = 1
    /\ \E u \in Urls \ {1} : u \in Range(pre.links[1]) /\ 1 \in Range(pre.links[u])

\* C29: a scrape_url or save_to_database call that raises, or a failure
\* result, leaves the URL in the failed set and does not end the traversal:
\* the call returns its statistics with every URL it queued crawled.
C29_FailureDoesNotAbort ==
    /\ \A k \in FailedScrapes : ret.scraped[k].url \in th.failed_urls
    /\ th.pc = "done" => /\ th.result = [success |-> TRUE]
                         /\ th.queued \subseteq th.crawled_urls
                         /\ th.crawl_queue = <<>>

\* a URL has been scraped with success after scrape_url had raised for
\* another one
C29_Witness ==
    /\ th.pc = "done"
    /\ \E j, k \in DOMAIN ret.scraped :
          /\ j < k
          /\ ret.scraped[j].outcome = "raise"
          /\ ret.scraped[k].outcome = "success" /\ ret.scraped[k].save = "ok"
          /\ ret.scraped[k].url \in th.successful_urls

\* C30: when the first start_session of crawl_with_depth hands out no
\* session, no scrape_url call is made, the call returns a failure result
\* and no session is open.
C30_NoFirstSessionAborts ==
    (th.pc # "call" /\ ~th.first_opened) =>
        /\ ret.scraped = <<>>
        /\ ret.opened = 0
        /\ th.pc = "done" => th.result = [success |-> FALSE]


\* the scrape_url calls that were given session s
ScrapesIn(s) == {k \in DOMAIN ret.scraped : ret.scraped[k].session = s}

\* C31: the session is rotated as soon as max_urls_per_session URLs have
\* been scraped in it, after the URL at hand; no session id is passed to
\* more than max_urls_per_session scrape_url calls.
C31_QuotaPerSession ==
    \A s \in 1..ret.opened : Cardinality(ScrapesIn(s)) <= pre.max_urls_per_session

\* as long as no scrape_url or save_to_database call raises, the quota is
\* kept
QuotaKeptWithoutRaise ==
    (\A k \in DOMAIN ret.scraped : ret.scraped[k].outcome # "raise" /\ ret.scraped[k].save = "ok")
        => /\ C31_QuotaPerSession
           /\ ret.active_session_id # NoSession =>
                 /\ ret.urls_in_session = Cardinality(ScrapesIn(ret.active_session_id))
                 /\ ret.urls_in_session < pre.max_urls_per_session

\* the workers that can take a task at the moment of the assignment e: those
\* available when the call began that the pass has not filled
AvailableAt(e) ==
    {w \in Range(AvailableBefore) : e.loads[w] < pre.workers[w].max_load}

\* C33: under least-busy every assignment of a pass is accepted and goes to
\* a worker whose current_load at that moment is the least among the workers
\* still available.
C33_LeastBusyEachTime ==
    (Returned /\ strategy = LEAST_BUSY) =>
        \A k \in 1..Len(Log) :
            /\ Log[k].ok
            /\ Log[k].worker \in AvailableAt(Log[k])
            /\ \A v \in AvailableAt(Log[k]) : Log[k].loads[Log[k].worker] <= Log[k].loads[v]

\* three tasks were assigned, the first to the second worker of the
\* registry, which began with the smaller load, and a later one to the first
C33_Witness ==
    /\ Returned /\ strategy = LEAST_BUSY
    /\ Len(Log) = 3
    /\ Len(AvailableBefore) = 2
    /\ pre.workers[2].current_load < pre.workers[1].current_load
    /\ Log[1].worker = 2
    /\ \E k \in 2..3 : Log[k].worker = 1

\* C34: under priority-based the tasks are assigned in descending priority,
\* equal priorities in source order; a task left PENDING when the capacity
\* has run out has a priority no higher than any task assigned in the pass;
\* every assignment goes to a least-loaded available worker.
C34_PriorityOrder ==
    (Returned /\ strategy = PRIORITY_BASED) =>
        /\ \A j, k \in 1..Len(Log) :
              j < k => \/ pre.tasks[Log[j].task].priority > pre.tasks[Log[k].task].priority
                       \/ /\ pre.tasks[Log[j].task].priority = pre.tasks[Log[k].task].priority
                          /\ Log[j].task < Log[k].task
        /\ \A i \in PendingBefore : \A k \in 1..Len(Log) :
              tasks[i].status = PENDING => pre.tasks[i].priority <= pre.tasks[Log[k].task].priority
        /\ \A k \in 1..Len(Log) :
              /\ Log[k].ok /\ tasks[Log[k].task].status = ASSIGNED
              /\ Log[k].worker \in AvailableAt(Log[k])
              /\ \A v \in AvailableAt(Log[k]) : Log[k].loads[Log[k].worker] <= Log[k].loads[v]

\* the capacity ran out after two tasks: the first task of the registry,
\* of lower priority, is left PENDING, and the two of higher priority were
\* assigned in source order
C34_Witness ==
    /\ Returned /\ strategy = PRIORITY_BASED
    /\ Len(pre.tasks) = 3 /\ Len(Log) = 2
    /\ pre.tasks[1].priority < pre.tasks[2].priority
    /\ pre.tasks[2].priority = pre.tasks[3].priority
    /\ tasks[1].status = PENDING
    /\ Log[1].task = 2 /\ Log[2].task = 3
    /\ Log[1].worker # Log[2].worker

\* the tasks the available workers could take when the call began
FreeCapacityBefore ==
    SumOver(Range(AvailableBefore),
            [w \in DOMAIN workers |-> pre.workers[w].max_load - pre.workers[w].current_load])

Min(a, b) == IF a <= b THEN a ELSE b

\* C39: when distribute() returns no PENDING task is left beside a worker
\* that is ONLINE or BUSY, has current_load < max_load and, under
\* capability-match, has the capability the task requires; under
\* round-robin, least-busy and priority-based the count returned is the
\* smaller of the number of pending tasks and the free capacity of the
\* available workers.
C39_WorkConserving ==
    Returned =>
        /\ \A i \in DOMAIN tasks : \A w \in DOMAIN workers :
              (tasks[i].status = PENDING /\ is_available(workers[w]))
                  => (strategy = CAPABILITY_MATCH /\ ~Eligible(w, i))
        /\ strategy # CAPABILITY_MATCH =>
              ret.n = Min(Cardinality(PendingBefore), FreeCapacityBefore)

\* a pass that ran out of capacity: both workers were available, both are
\* full, tasks were assigned to each and a task is left PENDING
C39_Witness ==
    /\ Returned /\ strategy # CAPABILITY_MATCH
    /\ Len(AvailableBefore) = 2
    /\ FreeCapacityBefore < Cardinality(PendingBefore)
    /\ ret.n = FreeCapacityBefore
    /\ \A w \in DOMAIN workers : \E k \in 1..Len(Log) : Log[k].worker = w
    /\ \E i \in DOMAIN tasks : tasks[i].status = PENDING

\* ------------------------------------------------------------------
\* SpecRoundRobin: one round-robin distribute() call over three workers,
\* enough for a worker to be taken out of the rotation with two others
\* left behind it.
MaxTasksR == 4      \* tasks in the registry
MaxWorkersR == 3    \* workers in the registry
MaxLoadR == 2       \* largest max_load of a worker

\* <<status, current_load, max_load>> of a drawn worker
WorkerStatesR ==
    {sl \in {ONLINE} \X (0..(MaxLoadR - 1)) \X (1..MaxLoadR) : sl[2] < sl[3]}
    \cup {<<BUSY, MaxLoadR, MaxLoadR>>, <<OFFLINE, 0, MaxLoadR>>}

InitRoundRobin ==
    /\ strategy = ROUND_ROBIN
    /\ \E nt \in 1..MaxTasksR :
       \E T \in [1..nt -> TaskDraws(ROUND_ROBIN)],
          S \in [1..MaxWorkersR -> WorkerStatesR] :
          /\ tasks = T
          /\ workers = [i \in 1..MaxWorkersR |-> DrawnWorker(S[i], {"basic-scraping"})]
    /\ task_results = <<>>
    /\ now = 0
    /\ ret = NoRet
    /\ pre = [tasks |-> tasks, workers |-> workers]
    /\ th = [caller |-> NewFrame]

SpecRoundRobin == InitRoundRobin /\ [][NextDist]_vars

\* the position of x in the list s
IndexOf(s, x) == CHOOSE p \in DOMAIN s : s[p] = x

\* the worker behind w in the cyclic order of the list s
Follower(s, w) == s[(IndexOf(s, w) % Len(s)) + 1]

\* C32: round-robin keeps one cyclic order of the available workers for the
\* whole pass; after a worker has been given a task, and also when that
\* fills it and takes it out of the rotation, the next task goes to the
\* worker that followed it in the order, wrapping at the end.
C32_NextInRotation ==
    Returned =>
        \A j \in 1..(Len(Log) - 1) :
            Len(Log[j].list) > 1 => Log[j + 1].worker = Follower(Log[j].list, Log[j].worker)

\* the rotation is kept as long as the worker given the task stays in it,
\* or was the last of the list
RotationKeptWithoutRemoval ==
    Returned =>
        \A j \in 1..(Len(Log) - 1) :
            (/\ Len(Log[j].list) > 1
             /\ \/ Log[j + 1].list = Log[j].list
                \/ Log[j].worker = Log[j].list[Len(Log[j].list)])
                => Log[j + 1].worker = Follower(Log[j].list, Log[j].worker)

\* ------------------------------------------------------------------
\* SpecRegistry: a Process and its TaskDistributor with tasks and workers
\* added and removed, the operations called one at a time.  The registries
\* are dicts: functions from the ids still registered.  Ids are handed out
\* increasing and never again (uuid4), th counts the ids handed out, ret
\* names the last operation.  The clock moves in long pauses only: a time
\* stamp is either fresh or older than both timeouts.
MaxTasksG == 1      \* tasks created
MaxWorkersG == 2    \* workers created
MaxLoadG == 2       \* largest max_load of a created worker
MaxRetriesG == 2    \* max_retries of a created task

\* dict[key] = x
dict_put(D, key, x) == [i \in DOMAIN D \cup {key} |-> IF i = key THEN x ELSE D[i]]

\* del dict[key]
dict_del(D, key) == [i \in DOMAIN D \ {key} |-> D[i]]

\* TaskDistributor.remove_task
remove_task(T, task_id) ==
    IF task_id \in DOMAIN T THEN [T |-> dict_del(T, task_id), ok |-> TRUE]
    ELSE [T |-> T, ok |-> FALSE]

\* TaskDistributor.remove_worker
remove_worker(W, worker_id) ==
    IF worker_id \in DOMAIN W THEN [W |-> dict_del(W, worker_id), ok |-> TRUE]
    ELSE [W |-> W, ok |-> FALSE]

Called(op, task_id, worker_id) == [op |-> op, task |-> task_id, worker |-> worker_id]

frameG == <<strategy, now, pre>>

InitRegistry ==
    /\ tasks = <<>>
    /\ workers = <<>>
    /\ strategy = LEAST_BUSY      \* the default of Process.__init__
    /\ task_results = <<>>
    /\ now = 0
    /\ ret = Called("none", 0, 0)
    /\ pre = NoPre
    /\ th = [tasks_created |-> 0, workers_created |-> 0]

\* Process.create_task
GCreateTask ==
    /\ th.tasks_created < MaxTasksG
    /\ tasks' = dict_put(tasks, th.tasks_created + 1,
                         NewTask(1, NoCap, MaxRetriesG, TaskTimeout, now))
    /\ th' = [th EXCEPT !.tasks_created = @ + 1]
    /\ ret' = Called("create_task", th.tasks_created + 1, 0)
    /\ UNCHANGED <<workers, task_results, frameG>>

\* Process.create_worker
GCreateWorker(max_load) ==
    /\ th.workers_created < MaxWorkersG
    /\ workers' = dict_put(workers, th.workers_created + 1,
                           NewWorker({"basic-scraping"}, max_load, now))
    /\ th' = [th EXCEPT !.workers_created = @ + 1]
    /\ ret' = Called("create_worker", 0, th.workers_created + 1)
    /\ UNCHANGED <<tasks, task_results, frameG>>

\* TaskDistributor.distribute, called by the caller
GDistribute ==
    \E r \in {distribute(strategy, tasks, workers, now)} :
        /\ tasks' = r.T
        /\ workers' = r.W
        /\ ret' = Called("distribute", 0, 0)
        /\ UNCHANGED <<task_results, th, frameG>>

\* one pass of the loop of Process._monitor_tasks
GMonitorTick ==
    \E r \in {distribute(strategy, check_task_timeouts(tasks, now),
                         check_worker_heartbeats(workers, now), now)} :
        /\ tasks' = r.T
        /\ workers' = r.W
        /\ ret' = Called("tick", 0, 0)
        /\ UNCHANGED <<task_results, th, frameG>>

\* Process.record_task_result
GRecordTaskResult(task_id, worker_id, success) ==
    LET r == record_task_result(tasks, workers, task_results, task_id, worker_id, success, now)
    IN  /\ task_id \in DOMAIN tasks /\ worker_id \in DOMAIN workers
        /\ ~success => tasks[task_id].error_count < MaxRetriesG
        /\ tasks' = r.T
        /\ workers' = r.W
        /\ task_results' = r.R
        /\ ret' = Called("record_task_result", task_id, worker_id)
        /\ UNCHANGED <<th, frameG>>

\* Process.update_worker_heartbeat
GUpdateWorkerHeartbeat(worker_id) ==
    /\ worker_id \in DOMAIN workers
    /\ workers' = update_worker_heartbeat(workers, worker_id, now).W
    /\ ret' = Called("update_worker_heartbeat", 0, worker_id)
    /\ UNCHANGED <<tasks, task_results, th, frameG>>

\* Task.reset, called on a registered task
GReset(task_id) ==
    /\ task_id \in DOMAIN tasks
    /\ tasks' = [tasks EXCEPT ![task_id] = reset(@, now)]
    /\ ret' = Called("reset", task_id, 0)
    /\ UNCHANGED <<workers, task_results, th, frameG>>

\* the executor takes up an assigned task: Task.update_status(IN_PROGRESS)
GStartTask(task_id) ==
    /\ task_id \in DOMAIN tasks
    /\ tasks[task_id].status = ASSIGNED
    /\ tasks' = [tasks EXCEPT ![task_id] = Task_update_status(@, IN_PROGRESS, now)]
    /\ ret' = Called("start_task", task_id, 0)
    /\ UNCHANGED <<workers, task_results, th, frameG>>

\* TaskDistributor.remove_task
GRemoveTask(task_id) ==
    /\ task_id \in DOMAIN tasks
    /\ tasks' = remove_task(tasks, task_id).T
    /\ ret' = Called("remove_task", task_id, 0)
    /\ UNCHANGED <<workers, task_results, th, frameG>>

\* TaskDistributor.remove_worker
GRemoveWorker(worker_id) ==
    /\ worker_id \in DOMAIN workers
    /\ workers' = remove_worker(workers, worker_id).W
    /\ ret' = Called("remove_worker", 0, worker_id)
    /\ UNCHANGED <<tasks, task_results, th, frameG>>

\* the clock moves on by more than both timeouts
GAdvanceTime ==
    /\ workers' = [i \in DOMAIN workers |-> [workers[i] EXCEPT !.last_heartbeat = 0 - Horizon]]
    /\ tasks' = [i \in DOMAIN tasks |-> [tasks[i] EXCEPT !.updated_at = 0 - Horizon]]
    /\ ret' = Called("time", 0, 0)
    /\ UNCHANGED <<task_results, th, frameG>>

NextRegistry ==
    \/ GCreateTask
    \/ \E m \in 1..MaxLoadG : GCreateWorker(m)
    \/ GDistribute
    \/ GMonitorTick
    \/ \E i \in 1..MaxTasksG, w \in 1..MaxWorkersG, b \in BOOLEAN : GRecordTaskResult(i, w, b)
    \/ \E w \in 1..MaxWorkersG : GUpdateWorkerHeartbeat(w)
    \/ \E i \in 1..MaxTasksG : GReset(i)
    \/ \E i \in 1..MaxTasksG : GStartTask(i)
    \/ \E i \in 1..MaxTasksG : GRemoveTask(i)
    \/ \E w \in 1..MaxWorkersG : GRemoveWorker(w)
    \/ GAdvanceTime

SpecRegistry == InitRegistry /\ [][NextRegistry]_vars

Held == {ASSIGNED, IN_PROGRESS}

\* C35: every registered task that is ASSIGNED or IN_PROGRESS is listed in
\* the current_tasks of exactly one registered worker, once.
C35_AssignedHeldOnce ==
    \A i \in DOMAIN tasks : tasks[i].status \in Held => Holders(i) = 1

\* C36: every task id in a registered worker's current_tasks is the id of a
\* registered task that is ASSIGNED or IN_PROGRESS.
C36_HeldAreAssigned ==
    \A w \in DOMAIN workers : \A i \in Range(workers[w].current_tasks) :
        i \in DOMAIN tasks /\ tasks[i].status \in Held

\* C37: a worker with status ONLINE has current_load < max_load and a worker
\* with status BUSY has current_load = max_load.
C37_StatusAgreesWithLoad ==
    \A w \in DOMAIN workers :
        /\ workers[w].status = ONLINE => workers[w].current_load < workers[w].max_load
        /\ workers[w].status = BUSY => workers[w].current_load = workers[w].max_load

\* BUSY is only ever the status of a full worker
BusyIsFull ==
    \A w \in DOMAIN workers :
        workers[w].status = BUSY => workers[w].current_load = workers[w].max_load

\* C38: distribute(), record_task_result and the monitor tick leave the
\* last_heartbeat of every registered worker as it was; only
\* update_worker_heartbeat changes it.
C38_OnlyHeartbeatRefreshes ==
    [][ret'.op \in {"distribute", "record_task_result", "tick"}
          => \A w \in DOMAIN workers \cap DOMAIN workers' :
                workers'[w].last_heartbeat = workers[w].last_heartbeat]_vars

\* distribute(), record_task_result and the tick leave last_heartbeat alone
\* where they leave the status alone
RefreshOnlyWithStatus ==
    [][ret'.op \in {"distribute", "record_task_result", "tick"}
          => \A w \in DOMAIN workers \cap DOMAIN workers' :
                workers'[w].status = workers[w].status
                    => workers'[w].last_heartbeat = workers[w].last_heartbeat]_vars

\* ------------------------------------------------------------------
\* SpecSessions: one CrawlManager called several times in a row, crawl()
\* and crawl_with_depth() in any order.  The manager (ret) lives on between
\* the calls; th is the frame of the crawl_with_depth call in progress; pre
\* is the configuration, the link graph and the number of calls made.
MaxCallsN == 2      \* calls made on the manager

\* the link graphs: the start page links to the two others; every page
\* links to every other
GraphsN ==
    {[u \in Urls |-> IF u = 1 THEN LinkList(Urls \ {1}) ELSE <<>>],
     [u \in Urls |-> LinkList(Urls \ {u})]}

InitSessions ==
    /\ tasks = <<>> /\ workers = <<>> /\ task_results = <<>>
    /\ strategy = LEAST_BUSY
    /\ now = 0
    /\ \E links \in GraphsN, max_depth \in {0, MaxDepthK}, quota \in QuotaValues :
          pre = [links |-> links, max_depth |-> max_depth,
                 max_urls_per_session |-> quota, follow_links |-> TRUE,
                 same_domain_only |-> FALSE, calls |-> 0]
    /\ ret = NewManager
    /\ th = NoCall

\* a crawl(url) call by the caller, from entry to return
SingleCrawl(url, o) ==
    /\ th.pc = "call" /\ pre.calls < MaxCallsN
    /\ o \in Answers(ret, pre)
    /\ ret' = crawl(ret, pre, url, 0, o).M
    /\ pre' = [pre EXCEPT !.calls = @ + 1]
    /\ UNCHANGED <<tasks, workers, strategy, task_results, now, th>>

\* crawl_with_depth has returned to the caller
NextCall ==
    /\ th.pc = "done"
    /\ th' = NoCall
    /\ pre' = [pre EXCEPT !.calls = @ + 1]
    /\ UNCHANGED <<tasks, workers, strategy, task_results, now, ret>>

NextSessions ==
    \/ \E url \in Urls : \E o \in Answers(ret, pre) : SingleCrawl(url, o)
    \/ \E handed_out \in BOOLEAN : pre.calls < MaxCallsN /\ CrawlBegin(handed_out)
    \/ CrawlSkip
    \/ \E o \in Answers(ret, pre) : CrawlUrl(o)
    \/ CrawlEnd
    \/ NextCall

SpecSessions == InitSessions /\ [][NextSessions]_vars

\* the sessions opened and not ended
OpenSessions == {s \in 1..ret.opened : Count(ret.ended, s) = 0}

\* C40: at most one session opened by the manager is un-ended at any time,
\* and no session id is passed to end_session twice.
C40_OneOpenSession ==
    /\ Cardinality(OpenSessions) <= 1
    /\ \A s \in 1..ret.opened : Count(ret.ended, s) <= 1

\* no session is ended twice, only sessions handed out are ended, and the
\* active session is an open one
NoSessionEndedTwice ==
    /\ Range(ret.ended) \subseteq 1..ret.opened
    /\ \A s \in 1..ret.opened : Count(ret.ended, s) <= 1
    /\ ret.active_session_id # NoSession => ret.active_session_id \in OpenSessions

====
